---- MODULE Spec2Model ----
(***************************************************************************)
(* MCPClientManager of src/mcp_v3.py and the Flask routes that drive it.   *)
(*                                                                         *)
(* Every request runs on its own thread (app.run(threaded=True)) and every *)
(* route that needs a coroutine runs it on an event loop private to that   *)
(* thread, so the manager's dictionaries are shared, unlocked, between     *)
(* threads.  A thread's position is pc[t]; one action is one step between  *)
(* two accesses to shared data.  Python objects that are shared by        *)
(* reference (the event lists, the SessionData instances) live in heaps    *)
(* (lists, sessObjs) and are named by their index.                         *)
(*                                                                         *)
(* Spec      runs the handlers one at a time (a handler starts only when   *)
(*           every other thread is between requests).                      *)
(* SpecConc  interleaves the same steps freely.                            *)
(* SpecShare interleaves process_query and POST /tools/call freely, from a  *)
(*           state in which server "calc" is connected.                    *)
(* SpecStream interleaves process_query with the one /events stream of its  *)
(*           session, from the same state.                                 *)
(* SpecDrain runs the same two handlers one at a time.                      *)
(* SpecClock is Spec with the wall clock advancing between any two steps.  *)
(* SpecCtx   runs process_query, one at a time, from a state in which       *)
(*           server "calc" is connected and session "s1" already holds up  *)
(*           to MaxHistory messages of earlier queries.                    *)
(* SpecLive  is SpecCtx with every started process_query run on to its end. *)
(* SpecSandbox runs the operations of AISandboxMCPClient of mcp_v2.py, one  *)
(*           at a time: add_sse_server, call_tool and close_all_sessions.  *)
(* SpecClient runs the operations of MCPClient of mcp.py and of              *)
(*           AISandboxMCPClient, one at a time.                             *)
(* SpecReg   runs the administrator's requests, one at a time: POST        *)
(*           /servers of mcp_v3.py and of mcp_v4.py, add_sse_server of     *)
(*           mcp_v2.py, GET /servers and POST /tools/call, with every way  *)
(*           a connect and its capability discovery can end.               *)
(***************************************************************************)
EXTENDS Integers, Sequences, FiniteSets, TLC

\* ------------------------------------------------------------------ bounds
\* Requests started in one run of Spec.
MaxOps == 2
\* Requests started in one run of SpecConc.
ConcOps == 2
\* Polls of one /events stream.
MaxPolls == 2
\* Requests started in one run of SpecReg.
RegOps == 2
\* Ticks of the clock in one run of SpecClock.
MaxClock == 2
\* Requests started in one run of SpecCtx.
CtxOps == 1
\* Messages a session holds when a run of SpecCtx begins.
MaxHistory == 11
\* The idle timeout sessions are held to, in ticks of the clock.
IdleTimeout == 1
\* Requests started in one run of SpecShare, of SpecStream or of SpecDrain.
ShareOps == 2
\* Operations started in one run of SpecSandbox.
SandboxOps == 3
\* Operations started in one run of SpecClient.
ClientOps == 4

\* ------------------------------------------------------------------ inputs
SessionIds == {"s1", "s2"}
ServerNames == {"calc", "fs"}
ToolNames == {"add"}

QueryThreads == {"q1"}
StreamThreads == {"e1", "e2"}
AdminThreads == {"a1"}
ToolThreads == {"c1"}
HistoryThreads == {"h1"}
Threads == QueryThreads \cup StreamThreads \cup AdminThreads \cup ToolThreads
             \cup HistoryThreads

VARIABLES
    connections,   \* MCPClientManager.connections : name -> MCPConnection or NoConn
    sessions,      \* MCPClientManager.sessions : id -> index in sessObjs, 0 = no key
    sessObjs,      \* the SessionData instances ever constructed
    event_queues,  \* MCPClientManager.event_queues : id -> index in lists, 0 = no key
    lists,         \* the event list objects ever constructed
    nextId,        \* uuid.uuid4(): the next fresh event id
    pc,            \* position of each thread
    loc,           \* locals of each thread
    res,           \* what the last request of each thread gave its caller
    started,       \* requests started so far
    log,           \* history: what the current invocation did, in order
    delivered,     \* history: event id -> times an /events stream emitted it
    appended,      \* history: id -> messages appended by add_to_conversation
    sinceDrain,    \* history: id -> events appended since the last get_events
    obs,           \* history: what happened to the current invocation's requests
    advertised,    \* history: name -> tools the server listed at its last stored connect
    sandbox,       \* AISandboxMCPClient of src/mcp_v2.py: the keys of sessions (in
                   \* insertion order), of tools, of resources and of server_configs
    mcp_client,    \* MCPClient of src/mcp.py, and the handles it opened
    now,           \* datetime.now()
    mode           \* "serial": one handler at a time; "threaded": free interleaving;
                   \* "registry": one handler at a time, the administrator's requests
                   \* "context": one handler at a time, after earlier queries
                   \* "shared": free interleaving, a server is connected
                   \* "drain": one handler at a time, a server is connected
                   \* "sandbox": one operation of AISandboxMCPClient at a time
                   \* "client": one operation of MCPClient or AISandboxMCPClient at
                   \*           a time

vars == <<connections, sessions, sessObjs, event_queues, lists, nextId, pc, loc,
          res, started, log, delivered, appended, sinceDrain, obs, advertised,
          sandbox, mcp_client, now, mode>>

\* Groups of variables an action leaves alone.
registry == <<connections, advertised, sandbox, mcp_client>>
sessionStore == <<sessions, sessObjs, appended>>
eventBus == <<event_queues, lists, nextId, delivered, sinceDrain>>

\* ------------------------------------------------------------------ values
\* A timestamp attribute that is None.
NoTime == [known |-> FALSE, at |-> 0]

\* MCPConnection.  last_checked is the attribute of mcp_v4.py (default None); the
\* MCPConnection of mcp_v3.py has no timestamp attribute at all.  transport is the
\* stdio transport that the streams of connection.session belong to: "none",
\* "open" or "closed".
NoConn == [present |-> FALSE, is_connected |-> FALSE, tools |-> {},
           resources |-> <<>>, prompts |-> <<>>, last_checked |-> NoTime,
           transport |-> "none"]

\* AISandboxMCPClient.__init__ (mcp_v2.py lines 44-47): every dictionary is empty.
NoClient == [sessions |-> <<>>, tools |-> {}, resources |-> {}, server_configs |-> {}]

\* The URIs a server can advertise on resources/list.
ResourceUris == {"file:///a"}

\* An entry of MCPClient.connections (mcp.py): the dictionary of lines 103-107 or
\* of lines 119-122; websocket is the handle the entry holds, 0 for none.
NoLink == [type |-> "none", websocket |-> 0]

\* MCPClient.__init__ (mcp.py lines 45-49).  servers holds the transport type of
\* each configured server, tools the server_name of each MCPTool by key, resources
\* the server_name of each MCPResource by URI; "none" marks a key that is absent.
\* session is the handle of the aiohttp session, 0 for None.  handles are the
\* aiohttp sessions and the websockets ever opened, each open or closed.
NoMCPClient ==
    [servers |-> [s \in ServerNames |-> "none"],
     connections |-> [s \in ServerNames |-> NoLink],
     tools |-> [k \in {sv \o ":" \o tl : sv \in ServerNames, tl \in ToolNames} |-> "none"],
     resources |-> [u \in ResourceUris |-> "none"],
     session |-> 0,
     handles |-> <<>>]

\* ServerConfig as POST /servers of mcp_v4.py builds it from the request body.
\* command and url: "" stands for a missing, null or empty field.
NoConfig == [transport_type |-> "none", command |-> "", url |-> ""]
TransportTypes == {"stdio", "sse", "SSE", "streamable_http", "grpc"}
Configs == { [transport_type |-> k, command |-> c, url |-> u] :
               k \in TransportTypes, c \in {"", "python3"}, u \in {"", "http://h/sse"} }

\* str.lower() on the transport types above.
Lower(k) == IF k = "SSE" THEN "sse" ELSE k
NoReply == [kind |-> "none", server |-> "none", tool |-> "none", args |-> "none"]
NoMsg == [role |-> "none", content |-> NoReply, inv |-> 0]
NoToolResult == [success |-> FALSE, shape |-> "none", is_error |-> FALSE, error |-> "none"]
NoToolUsed == [server |-> "none", tool |-> "none", arguments |-> "none",
               result |-> NoToolResult]
NoRes == [kind |-> "none", inv |-> 0, success |-> FALSE, session_id |-> "none",
          response |-> NoReply, has_tool_used |-> FALSE, tool_used |-> NoToolUsed,
          error |-> "none", tool_result |-> NoToolResult, history |-> <<>>,
          servers |-> <<>>, sessions |-> <<>>, at |-> 0]

\* The text of a message: the user's query, or an LLM reply.
QueryText == [kind |-> "query", server |-> "none", tool |-> "none", args |-> "none"]
FinalText == [kind |-> "final_text", server |-> "none", tool |-> "none", args |-> "none"]

\* What the content field of the first LLM reply can be.
\*   text            not JSON
\*   json_object     a JSON object whose action is not "tool_call"
\*   json_scalar     a JSON number, string, list or null
\*   directive       {action: tool_call, server, tool, arguments}
\*   directive_no_tool  action tool_call without "tool" or "server"
\*   directive_no_args  action tool_call without "arguments"
\*   not_string      the content field is null
PlainReplies ==
    { [kind |-> k, server |-> "none", tool |-> "none", args |-> "none"] :
        k \in {"text", "json_object", "json_scalar", "directive_no_tool", "not_string"} }
DirectiveReplies ==
    { [kind |-> "directive", server |-> s, tool |-> tl, args |-> "a"] :
        s \in ServerNames, tl \in ToolNames }
      \cup { [kind |-> "directive_no_args", server |-> "calc", tool |-> "add",
               args |-> "none"] }
FirstReplies == PlainReplies \cup DirectiveReplies

\* A requests.post that neither answers nor times out.
HttpOutcomesNever == {}

\* How one requests.post to the LLM can end: every request is sent with timeout=30
\* (lines 295 and 344), so it answers or raises.
HttpOutcomes == {"exception", "non200", "malformed", "ok"}

\* conversation_history[-10:]
ContextLimit == 10

\* Tool sets a server can advertise on tools/list.
AdvertisedSets == {{}, {"add"}}

\* How connection.session.call_tool can end.
InvokeOutcomes == {"content", "content_is_error", "no_content", "exception"}

Blank ==
    [op |-> "none", inv |-> 0, sid |-> "none", stack |-> <<>>, msg |-> NoMsg,
     ev |-> "none", sess |-> 0, L |-> 0, events |-> 0, idx |-> 0, polls |-> 0,
     got |-> <<>>, want |-> <<>>, prevLen |-> 0 - 1,
     iterSize |-> 0, reply |-> NoReply, amsg |-> NoReply, server |-> "none",
     tool |-> "none", args |-> "none", tres |-> NoToolResult, usedTool |-> FALSE,
     err |-> "none", tools |-> {}, ctx |-> <<>>, cfg |-> NoConfig,
     resources |-> <<>>, prompts |-> <<>>]

\* Nothing has happened yet to an invocation.
\*   fault          the exception or failed request, "none" if there was none
\*   llm1, llm2     how the first and the follow-up LLM request ended
\*   reply          the content of the first LLM reply
\*   unknownServer  call_tool was given a name that is not a key of connections
\*   invoked        times session.call_tool was invoked
\*   call           the server, tool and arguments session.call_tool was invoked with
\*   outcome        how session.call_tool ended, "none" when it was not invoked
\*   key            the tool_key AISandboxMCPClient.call_tool was given
\*   session        the session_id the body of POST /tools/call carried
\*   op             the add-server operation the request ran, "none" for other requests
\*   name, cfg      the server name and the configuration of an add-server request
\*   entered        times the manager's add_server was entered
\*   opened         transports the request opened
\*   connect        how far the connect went: "none", or the step that failed
\*                  ("transport", "handshake", "list_tools"), or "ok"; for call_tool
\*                  of mcp_v4.py "checked" once the connection was found connected
\*   resources, prompts  how the list request ended: "none", "raised", "empty", "some"
\*   before         self.connections when the request arrived
\*   clientBefore   the AISandboxMCPClient when its operation was called
NoObs == [fault |-> "none", llm1 |-> "none", llm2 |-> "none", reply |-> NoReply,
          unknownServer |-> FALSE, invoked |-> 0, call |-> NoReply,
          outcome |-> "none", key |-> "none", session |-> "none",
          op |-> "none", name |-> "none", cfg |-> NoConfig, entered |-> 0,
          opened |-> 0,
          connect |-> "none", resources |-> "none", prompts |-> "none",
          before |-> <<>>,
          clientBefore |-> NoClient]

Top(t) == Head(loc[t].stack)
Pop(t) == Tail(loc[t].stack)

\* ------------------------------------------------------------------ scheduling
\* Between requests, or asleep between two polls.
Quiet(t) == pc[t] \in {"idle", "se_sleep"}

\* Session ids the requests of a run carry.
Carried == IF mode \in {"serial", "context"} THEN SessionIds ELSE {"s1"}

\* The steps of a connect that fail in a run, and the ways a list-resources or
\* list-prompts request ends in a run.
ConnectFailures ==
    IF mode = "registry" THEN {"transport", "handshake", "list_tools"} ELSE {"transport"}
ListOutcomes ==
    CASE mode = "registry" -> {"raised", "empty", "some"}
      [] mode \in {"sandbox", "client"} -> {"raised", "some"}
      [] OTHER -> {"some"}

\* Thread t may take a step.
Turn(t) == mode \in {"threaded", "shared"} \/ \A u \in Threads \ {t} : Quiet(u)

\* Thread t may take a new request.
CanStart(t) ==
    /\ pc[t] = "idle"
    /\ Turn(t)
    /\ started < (CASE mode = "serial" -> MaxOps
                     [] mode = "threaded" -> ConcOps
                     [] mode = "context" -> CtxOps
                     [] mode \in {"shared", "drain"} -> ShareOps
                     [] mode = "sandbox" -> SandboxOps
                     [] mode = "client" -> ClientOps
                     [] OTHER -> RegOps)

\* ------------------------------------------------------------------ Init
Fresh ==
    /\ connections = [s \in ServerNames |-> NoConn]
    /\ sessions = [s \in SessionIds |-> 0]
    /\ sessObjs = <<>>
    /\ event_queues = [s \in SessionIds |-> 0]
    /\ lists = <<>>
    /\ nextId = 1
    /\ pc = [t \in Threads |-> "idle"]
    /\ loc = [t \in Threads |-> Blank]
    /\ res = [t \in Threads |-> NoRes]
    /\ started = 0
    /\ log = [t \in Threads |-> <<>>]
    /\ delivered = <<>>
    /\ appended = [s \in SessionIds |-> <<>>]
    /\ sinceDrain = [s \in SessionIds |-> <<>>]
    /\ obs = [t \in Threads |-> NoObs]
    /\ advertised = [s \in ServerNames |-> [known |-> FALSE, tools |-> {}]]
    /\ sandbox = NoClient
    /\ mcp_client = NoMCPClient
    /\ now = 0

Init == Fresh /\ mode = "serial"

InitConc == Fresh /\ mode = "threaded"

InitReg == Fresh /\ mode = "registry"

InitSandbox == Fresh /\ mode = "sandbox"

InitClient == Fresh /\ mode = "client"

\* The history k earlier messages leave: user and assistant messages in turn, the
\* i-th pair from the invocation numbered -i (a last user message without its
\* answer is the trace of a failed query).
Earlier(k) ==
    [i \in 1..k |->
       [role |-> IF i % 2 = 1 THEN "user" ELSE "assistant",
        content |-> IF i % 2 = 1 THEN QueryText ELSE FinalText,
        inv |-> 0 - ((i + 1) \div 2)]]

\* The state after add_server connected "calc" and session "s1" served earlier
\* queries.
InitCtx ==
    /\ \E k \in 0..MaxHistory :
         /\ sessObjs = <<[session_id |-> "s1", conversation_history |-> Earlier(k),
                          created_at |-> 0, last_activity |-> 0]>>
         /\ appended = [s \in SessionIds |-> IF s = "s1" THEN Earlier(k) ELSE <<>>]
    /\ sessions = [s \in SessionIds |-> IF s = "s1" THEN 1 ELSE 0]
    /\ connections =
         [s \in ServerNames |->
            IF s = "calc"
            THEN [NoConn EXCEPT !.present = TRUE, !.is_connected = TRUE,
                                !.tools = {"add"}, !.transport = "closed"]
            ELSE NoConn]
    /\ advertised = [s \in ServerNames |-> [known |-> s = "calc",
                                            tools |-> IF s = "calc" THEN {"add"} ELSE {}]]
    /\ event_queues = [s \in SessionIds |-> 0]
    /\ lists = <<>>
    /\ nextId = 1
    /\ pc = [t \in Threads |-> "idle"]
    /\ loc = [t \in Threads |-> Blank]
    /\ res = [t \in Threads |-> NoRes]
    /\ started = 0
    /\ log = [t \in Threads |-> <<>>]
    /\ delivered = <<>>
    /\ sinceDrain = [s \in SessionIds |-> <<>>]
    /\ obs = [t \in Threads |-> NoObs]
    /\ sandbox = NoClient
    /\ mcp_client = NoMCPClient
    /\ now = 0
    /\ mode = "context"

\* The state after add_server connected "calc".
CalcConnected ==
    /\ connections =
         [s \in ServerNames |->
            IF s = "calc"
            THEN [NoConn EXCEPT !.present = TRUE, !.is_connected = TRUE,
                                !.tools = {"add"}, !.transport = "closed"]
            ELSE NoConn]
    /\ advertised = [s \in ServerNames |-> [known |-> s = "calc",
                                            tools |-> IF s = "calc" THEN {"add"} ELSE {}]]
    /\ sessions = [s \in SessionIds |-> 0]
    /\ sessObjs = <<>>
    /\ appended = [s \in SessionIds |-> <<>>]
    /\ event_queues = [s \in SessionIds |-> 0]
    /\ lists = <<>>
    /\ nextId = 1
    /\ pc = [t \in Threads |-> "idle"]
    /\ loc = [t \in Threads |-> Blank]
    /\ res = [t \in Threads |-> NoRes]
    /\ started = 0
    /\ log = [t \in Threads |-> <<>>]
    /\ delivered = <<>>
    /\ sinceDrain = [s \in SessionIds |-> <<>>]
    /\ obs = [t \in Threads |-> NoObs]
    /\ sandbox = NoClient
    /\ mcp_client = NoMCPClient
    /\ now = 0

\* A server is connected and the request threads run side by side.
InitShare == CalcConnected /\ mode = "shared"

\* A server is connected and the requests are handled one at a time.
InitDrain == CalcConnected /\ mode = "drain"

\* ------------------------------------------------------------------ get_session
\* if session_id not in self.sessions
GsCheck(t) ==
    /\ pc[t] = "gs_check" /\ Turn(t)
    /\ pc' = [pc EXCEPT ![t] = IF sessions[loc[t].sid] = 0 THEN "gs_create" ELSE "gs_touch"]
    /\ UNCHANGED <<mode, now, obs, registry, sessionStore, eventBus, loc, res, started, log>>

\* self.sessions[session_id] = SessionData(session_id, [], now, now)
GsCreate(t) ==
    /\ pc[t] = "gs_create" /\ Turn(t)
    /\ sessObjs' = Append(sessObjs, [session_id |-> loc[t].sid,
                                     conversation_history |-> <<>>,
                                     created_at |-> now, last_activity |-> now])
    /\ sessions' = [sessions EXCEPT ![loc[t].sid] = Len(sessObjs) + 1]
    /\ pc' = [pc EXCEPT ![t] = "gs_ret"]
    /\ UNCHANGED <<mode, now, obs, registry, eventBus, appended, loc, res, started, log>>

\* self.sessions[session_id].last_activity = datetime.now()
GsTouch(t) ==
    /\ pc[t] = "gs_touch" /\ Turn(t)
    /\ sessObjs' = [sessObjs EXCEPT ![sessions[loc[t].sid]].last_activity = now]
    /\ pc' = [pc EXCEPT ![t] = "gs_ret"]
    /\ UNCHANGED <<mode, now, obs, registry, sessions, appended, eventBus, loc, res,
                   started, log>>

\* return self.sessions[session_id]
GsRet(t) ==
    /\ pc[t] = "gs_ret" /\ Turn(t)
    /\ loc' = [loc EXCEPT ![t] = [@ EXCEPT !.sess = sessions[loc[t].sid], !.stack = Pop(t)]]
    /\ pc' = [pc EXCEPT ![t] = Top(t)]
    /\ UNCHANGED <<mode, now, obs, registry, sessionStore, eventBus, res, started, log>>

\* ------------------------------------------------------------------ add_to_conversation
\* An add_to_conversation that appends the message twice.
AtcAppendTwice(t) ==
    /\ pc[t] = "atc_append" /\ Turn(t)
    /\ sessObjs' = [sessObjs EXCEPT ![loc[t].sess].conversation_history =
                        Append(Append(@, loc[t].msg), loc[t].msg)]
    /\ appended' = [appended EXCEPT ![loc[t].sid] = Append(@, loc[t].msg)]
    /\ log' = [log EXCEPT ![t] = Append(@, "msg:" \o loc[t].msg.role)]
    /\ loc' = [loc EXCEPT ![t] = [@ EXCEPT !.stack = Pop(t), !.msg = NoMsg, !.sess = 0]]
    /\ pc' = [pc EXCEPT ![t] = Top(t)]
    /\ UNCHANGED <<mode, now, obs, registry, sessions, eventBus, res, started>>

\* session.conversation_history.append({**message, 'timestamp': ...})
AtcAppend(t) ==
    /\ pc[t] = "atc_append" /\ Turn(t)
    /\ sessObjs' = [sessObjs EXCEPT ![loc[t].sess].conversation_history =
                        Append(@, loc[t].msg)]
    /\ appended' = [appended EXCEPT ![loc[t].sid] = Append(@, loc[t].msg)]
    /\ log' = [log EXCEPT ![t] = Append(@, "msg:" \o loc[t].msg.role)]
    /\ loc' = [loc EXCEPT ![t] = [@ EXCEPT !.stack = Pop(t), !.msg = NoMsg, !.sess = 0]]
    /\ pc' = [pc EXCEPT ![t] = Top(t)]
    /\ UNCHANGED <<mode, now, obs, registry, sessions, eventBus, res, started>>

\* ------------------------------------------------------------------ add_event
\* An add_event that puts the event first.
ExtendedInFront(l, e) == <<e>> \o l

\* list.append of line 214
Extended(l, e) == Append(l, e)

\* if session_id not in self.event_queues
AeCheck(t) ==
    /\ pc[t] = "ae_check" /\ Turn(t)
    /\ pc' = [pc EXCEPT ![t] = IF event_queues[loc[t].sid] = 0 THEN "ae_create" ELSE "ae_load"]
    /\ UNCHANGED <<mode, now, obs, registry, sessionStore, eventBus, loc, res, started, log>>

\* self.event_queues[session_id] = []
AeCreate(t) ==
    /\ pc[t] = "ae_create" /\ Turn(t)
    /\ lists' = Append(lists, <<>>)
    /\ event_queues' = [event_queues EXCEPT ![loc[t].sid] = Len(lists) + 1]
    /\ pc' = [pc EXCEPT ![t] = "ae_load"]
    /\ UNCHANGED <<mode, now, obs, registry, sessionStore, nextId, delivered, sinceDrain, loc, res,
                   started, log>>

\* self.event_queues[session_id]  (the list object .append is then called on)
AeLoad(t) ==
    /\ pc[t] = "ae_load" /\ Turn(t)
    /\ loc' = [loc EXCEPT ![t].L = event_queues[loc[t].sid]]
    /\ pc' = [pc EXCEPT ![t] = "ae_append"]
    /\ UNCHANGED <<mode, now, obs, registry, sessionStore, eventBus, res, started, log>>

\* An add_event whose queues are one list shared by every session.
AeAppendShared(t) ==
    /\ pc[t] = "ae_append" /\ Turn(t)
    /\ LET e == [type |-> loc[t].ev, id |-> nextId, inv |-> loc[t].inv,
                 sid |-> loc[t].sid]
       IN /\ lists' = [i \in 1..Len(lists) |->
                         IF \E sid \in SessionIds : event_queues[sid] = i
                         THEN Extended(lists[i], e) ELSE lists[i]]
          /\ sinceDrain' = [sinceDrain EXCEPT ![loc[t].sid] = Append(@, e)]
    /\ nextId' = nextId + 1
    /\ delivered' = Append(delivered, 0)
    /\ log' = [log EXCEPT ![t] = Append(@, "ev:" \o loc[t].ev)]
    /\ loc' = [loc EXCEPT ![t] = [@ EXCEPT !.stack = Pop(t), !.ev = "none", !.L = 0]]
    /\ pc' = [pc EXCEPT ![t] = Top(t)]
    /\ UNCHANGED <<mode, now, obs, registry, sessionStore, event_queues, res, started>>

\* .append({**event, 'timestamp': ..., 'id': str(uuid.uuid4())})
AeAppend(t) ==
    /\ pc[t] = "ae_append" /\ Turn(t)
    /\ LET e == [type |-> loc[t].ev, id |-> nextId, inv |-> loc[t].inv,
                 sid |-> loc[t].sid]
       IN /\ lists' = [lists EXCEPT ![loc[t].L] = Extended(@, e)]
          /\ sinceDrain' = [sinceDrain EXCEPT ![loc[t].sid] = Append(@, e)]
    /\ nextId' = nextId + 1
    /\ delivered' = Append(delivered, 0)
    /\ log' = [log EXCEPT ![t] = Append(@, "ev:" \o loc[t].ev)]
    /\ loc' = [loc EXCEPT ![t] = [@ EXCEPT !.stack = Pop(t), !.ev = "none", !.L = 0]]
    /\ pc' = [pc EXCEPT ![t] = Top(t)]
    /\ UNCHANGED <<mode, now, obs, registry, sessionStore, event_queues, res, started>>

\* ------------------------------------------------------------------ get_events
\* The contents of the list object a reference names; 0 names the private empty
\* list that .get(session_id, []) gives when the key is absent.
EventsOf(ref) == IF ref = 0 THEN <<>> ELSE lists[ref]

\* events = self.event_queues.get(session_id, [])
GeLoad(t) ==
    /\ pc[t] = "ge_load" /\ Turn(t)
    /\ loc' = [loc EXCEPT ![t].events = event_queues[loc[t].sid]]
    /\ pc' = [pc EXCEPT ![t] = "ge_store"]
    /\ UNCHANGED <<mode, now, obs, registry, sessionStore, eventBus, res, started, log>>

\* A get_events that forgets to clear.
ClearedNot(old) == old

\* The list get_events leaves under the key (line 223).
Cleared(old) == <<>>

\* self.event_queues[session_id] = [] ; return events
GeStore(t) ==
    /\ pc[t] = "ge_store" /\ Turn(t)
    /\ lists' = Append(lists, Cleared(EventsOf(loc[t].events)))
    /\ event_queues' = [event_queues EXCEPT ![loc[t].sid] = Len(lists) + 1]
    /\ sinceDrain' = [sinceDrain EXCEPT ![loc[t].sid] = <<>>]
    /\ loc' = [loc EXCEPT ![t] = [@ EXCEPT !.idx = 0,
                                            !.got = EventsOf(loc[t].events),
                                            !.want = sinceDrain[loc[t].sid],
                                            !.prevLen = IF loc[t].polls = 1 THEN 0 - 1
                                                        ELSE Len(loc[t].got)]]
    /\ pc' = [pc EXCEPT ![t] = "se_iter"]
    /\ UNCHANGED <<mode, now, obs, registry, sessionStore, nextId, delivered, res, started, log>>

\* ------------------------------------------------------------------ stream_events
\* GET /events/<session_id>: the generator starts its first poll.
SeConnect(t, sid) ==
    /\ CanStart(t)
    /\ t \in StreamThreads
    /\ started' = started + 1
    /\ loc' = [loc EXCEPT ![t] = [Blank EXCEPT !.op = "stream", !.sid = sid,
                                               !.inv = started + 1, !.polls = 1]]
    /\ pc' = [pc EXCEPT ![t] = "ge_load"]
    /\ log' = [log EXCEPT ![t] = <<>>]
    /\ obs' = [obs EXCEPT ![t] = NoObs]
    /\ UNCHANGED <<mode, now, registry, sessionStore, eventBus, res>>

\* for event in events: yield ...   (the list is read as it is at each step)
SeIter(t) ==
    /\ pc[t] = "se_iter" /\ Turn(t)
    /\ IF loc[t].idx < Len(EventsOf(loc[t].events))
       THEN /\ LET e == EventsOf(loc[t].events)[loc[t].idx + 1]
               IN delivered' = [delivered EXCEPT ![e.id] = @ + 1]
            /\ loc' = [loc EXCEPT ![t].idx = @ + 1]
            /\ pc' = pc
       ELSE /\ pc' = [pc EXCEPT ![t] = "se_sleep"]
            /\ loc' = [loc EXCEPT ![t] = [@ EXCEPT !.events = 0, !.idx = 0]]
            /\ delivered' = delivered
    /\ UNCHANGED <<mode, now, obs, registry, sessionStore, event_queues, lists, nextId, sinceDrain,
                   res, started, log>>

\* time.sleep(0.5), then the next turn of while True
SePoll(t) ==
    /\ pc[t] = "se_sleep" /\ Turn(t)
    /\ loc[t].polls < MaxPolls
    /\ loc' = [loc EXCEPT ![t].polls = @ + 1]
    /\ pc' = [pc EXCEPT ![t] = "ge_load"]
    /\ UNCHANGED <<mode, now, obs, registry, sessionStore, eventBus, res, started, log>>

\* The client disconnects and the generator is closed.
SeClose(t) ==
    /\ pc[t] = "se_sleep" /\ Turn(t)
    /\ loc' = [loc EXCEPT ![t] = Blank]
    /\ pc' = [pc EXCEPT ![t] = "idle"]
    /\ UNCHANGED <<mode, now, obs, registry, sessionStore, eventBus, res, started, log>>

\* ------------------------------------------------------------------ exceptions
\* An exception leaves the manager method the thread is in.  Inside the try of
\* process_query (lines 284-397) it reaches the except clause; anywhere else it
\* reaches the caller of the method.
Raise(t, err, inTry, seen) ==
    /\ obs' = [obs EXCEPT ![t] = [seen EXCEPT !.fault = err]]
    /\ IF inTry
       THEN /\ pc' = [pc EXCEPT ![t] = "pq_except"]
            /\ loc' = [loc EXCEPT ![t] = [@ EXCEPT !.err = err, !.stack = <<>>]]
            /\ res' = res
       ELSE /\ pc' = [pc EXCEPT ![t] = "idle"]
            /\ loc' = [loc EXCEPT ![t] = Blank]
            /\ res' = [res EXCEPT ![t] = [NoRes EXCEPT !.kind = "raise", !.error = err,
                                                       !.inv = loc[t].inv,
                                                       !.session_id = loc[t].sid]]

\* ------------------------------------------------------------------ call_tool
\* A call_tool that reports no error flag.
ToolResultFlagless(o) ==
    CASE o \in {"content", "content_is_error"} ->
           [success |-> TRUE, shape |-> "content", is_error |-> FALSE, error |-> "none"]
      [] o = "no_content" ->
           [success |-> TRUE, shape |-> "result", is_error |-> FALSE, error |-> "none"]
      [] OTHER ->
           [success |-> FALSE, shape |-> "error", is_error |-> FALSE,
            error |-> "tool_exception"]

\* The dictionary call_tool returns for each way the invocation can end
\* (lines 139-161).
ToolResult(o) ==
    CASE o = "content" ->
           [success |-> TRUE, shape |-> "content", is_error |-> FALSE, error |-> "none"]
      [] o = "content_is_error" ->
           [success |-> TRUE, shape |-> "content", is_error |-> TRUE, error |-> "none"]
      [] o = "no_content" ->
           [success |-> TRUE, shape |-> "result", is_error |-> FALSE, error |-> "none"]
      [] OTHER ->
           [success |-> FALSE, shape |-> "error", is_error |-> TRUE,
            error |-> "tool_exception"]

\* if server_name not in self.connections: raise ValueError("Server ... not found")
CtCheck(t) ==
    /\ pc[t] = "ct_check" /\ Turn(t)
    /\ IF ~connections[loc[t].server].present
       THEN Raise(t, "server_not_found", loc[t].op = "query",
                  [obs[t] EXCEPT !.unknownServer = TRUE])
       ELSE /\ pc' = [pc EXCEPT ![t] = "ct_connected"]
            /\ UNCHANGED <<loc, res, obs>>
    /\ UNCHANGED <<mode, now, registry, sessionStore, eventBus, started, log>>

\* connection = self.connections[server_name]; if not connection.is_connected: raise
CtConnected(t) ==
    /\ pc[t] = "ct_connected" /\ Turn(t)
    /\ IF ~connections[loc[t].server].is_connected
       THEN Raise(t, "server_not_connected", loc[t].op = "query", obs[t])
       ELSE /\ pc' = [pc EXCEPT ![t] = "ct_send"]
            /\ UNCHANGED <<loc, res, obs>>
    /\ UNCHANGED <<mode, now, registry, sessionStore, eventBus, started, log>>

\* request = CallToolRequest(...); connection.session.call_tool(request) is entered:
\* the thread's event loop now works on the session of the connection.
CtSend(t) ==
    /\ pc[t] = "ct_send" /\ Turn(t)
    /\ pc' = [pc EXCEPT ![t] = "ct_invoke"]
    /\ UNCHANGED <<mode, now, obs, registry, sessionStore, eventBus, loc, res, started,
                   log>>

\* Threads that are inside session.call_tool of a server's connection.
InUse(s) == {t \in Threads : pc[t] = "ct_invoke" /\ loc[t].server = s}

\* A call_tool that marks the connection as not connected when the invocation
\* raises.
CtInvokeDisconnecting(t) ==
    /\ pc[t] = "ct_invoke" /\ Turn(t)
    /\ \E o \in InvokeOutcomes :
         /\ loc' = [loc EXCEPT ![t] = [@ EXCEPT !.tres = ToolResult(o), !.stack = Pop(t)]]
         /\ obs' = [obs EXCEPT ![t] =
                      [@ EXCEPT !.invoked = @ + 1, !.outcome = o,
                                !.call = [kind |-> "call", server |-> loc[t].server,
                                          tool |-> loc[t].tool, args |-> loc[t].args]]]
         /\ connections' = [connections EXCEPT ![loc[t].server].is_connected =
                                                  @ /\ o # "exception"]
    /\ log' = [log EXCEPT ![t] = Append(@, "tool")]
    /\ pc' = [pc EXCEPT ![t] = Top(t)]
    /\ UNCHANGED <<mode, now, advertised, sandbox, mcp_client, sessionStore, eventBus, res,
                   started>>

\* result = await connection.session.call_tool(request), and the return
CtInvoke(t) ==
    /\ pc[t] = "ct_invoke" /\ Turn(t)
    /\ \E o \in InvokeOutcomes :
         /\ loc' = [loc EXCEPT ![t] = [@ EXCEPT !.tres = ToolResult(o), !.stack = Pop(t)]]
         /\ obs' = [obs EXCEPT ![t] =
                      [@ EXCEPT !.invoked = @ + 1, !.outcome = o,
                                !.call = [kind |-> "call", server |-> loc[t].server,
                                          tool |-> loc[t].tool, args |-> loc[t].args]]]
    /\ log' = [log EXCEPT ![t] = Append(@, "tool")]
    /\ pc' = [pc EXCEPT ![t] = Top(t)]
    /\ UNCHANGED <<mode, now, registry, sessionStore, eventBus, res, started>>

\* ------------------------------------------------------------------ process_query
\* POST /query with a non-empty query: add_to_conversation(user message) begins.
PqStart(t, sid) ==
    /\ CanStart(t)
    /\ t \in QueryThreads
    /\ started' = started + 1
    /\ loc' = [loc EXCEPT ![t] =
                 [Blank EXCEPT !.op = "query", !.sid = sid, !.inv = started + 1,
                               !.msg = [role |-> "user", content |-> QueryText,
                                        inv |-> started + 1],
                               !.stack = <<"atc_append", "pq_processing">>]]
    /\ pc' = [pc EXCEPT ![t] = "gs_check"]
    /\ log' = [log EXCEPT ![t] = <<>>]
    /\ res' = [res EXCEPT ![t] = NoRes]
    /\ obs' = [obs EXCEPT ![t] = NoObs]
    /\ UNCHANGED <<mode, now, registry, sessionStore, eventBus>>

\* A call of add_event(session_id, {type: ev}) that continues at `next`.
CallAddEvent(t, ev, next) ==
    /\ loc' = [loc EXCEPT ![t] = [@ EXCEPT !.ev = ev, !.stack = <<next>>]]
    /\ pc' = [pc EXCEPT ![t] = "ae_check"]

\* self.add_event(session_id, {'type': 'processing', ...})
PqProcessing(t) ==
    /\ pc[t] = "pq_processing" /\ Turn(t)
    /\ CallAddEvent(t, "processing", "pq_iter")
    /\ UNCHANGED <<mode, now, obs, registry, sessionStore, eventBus, res, started, log>>

\* The keys of self.connections.
Registered == {s \in ServerNames : connections[s].present}

\* for server_name, connection in self.connections.items(): the iterator is made
PqIterBegin(t) ==
    /\ pc[t] = "pq_iter" /\ Turn(t)
    /\ loc' = [loc EXCEPT ![t].iterSize = Cardinality(Registered)]
    /\ pc' = [pc EXCEPT ![t] = "pq_iter_end"]
    /\ UNCHANGED <<mode, now, obs, registry, sessionStore, eventBus, res, started, log>>

\* ... and exhausted: a dictionary that grew in between makes the iterator raise
\* RuntimeError, outside the try.  Then session = self.get_session(session_id).
PqIterEnd(t) ==
    /\ pc[t] = "pq_iter_end" /\ Turn(t)
    /\ IF Cardinality(Registered) # loc[t].iterSize
       THEN Raise(t, "dict_changed_size", FALSE, obs[t])
       ELSE /\ loc' = [loc EXCEPT ![t] = [@ EXCEPT !.stack = <<"pq_ctx">>]]
            /\ pc' = [pc EXCEPT ![t] = "gs_check"]
            /\ UNCHANGED <<res, obs>>
    /\ UNCHANGED <<mode, now, registry, sessionStore, eventBus, started, log>>

\* The first n elements of a sequence: s[:n]
FirstN(s, n) == IF Len(s) <= n THEN s ELSE SubSeq(s, 1, n)

\* The last n elements of a sequence: s[-n:]
LastN(s, n) == IF Len(s) <= n THEN s ELSE SubSeq(s, Len(s) - n + 1, Len(s))

\* A process_query that sends the first LLM request without announcing it.
PqCtxSilent(t) ==
    /\ pc[t] = "pq_ctx" /\ Turn(t)
    /\ loc' = [loc EXCEPT ![t] =
                 [@ EXCEPT !.ctx = LastN(sessObjs[loc[t].sess].conversation_history,
                                         ContextLimit),
                           !.sess = 0]]
    /\ pc' = [pc EXCEPT ![t] = "pq_llm1"]
    /\ UNCHANGED <<mode, now, obs, registry, sessionStore, eventBus, res, started, log>>

\* conversation_history = session.conversation_history[-10:], then
\* self.add_event(session_id, {'type': 'llm_call', ...})
PqCtx(t) ==
    /\ pc[t] = "pq_ctx" /\ Turn(t)
    /\ loc' = [loc EXCEPT ![t] =
                 [@ EXCEPT !.ctx = LastN(sessObjs[loc[t].sess].conversation_history,
                                         ContextLimit),
                           !.sess = 0, !.ev = "llm_call", !.stack = <<"pq_llm1">>]]
    /\ pc' = [pc EXCEPT ![t] = "ae_check"]
    /\ UNCHANGED <<mode, now, obs, registry, sessionStore, eventBus, res, started, log>>

\* What lines 305-307 and 363 make of the assistant message:
\*   json.loads raises JSONDecodeError -> "final" (the except clause of line 363)
\*   json.loads raises TypeError (the content is not a string) -> "type_error"
\*   the value has no .get (a number, string, list or null) -> "attribute_error"
\*   .get('action') == 'tool_call' -> "tool", else "final"
Classify(msg) ==
    CASE msg.kind = "text" -> "final"
      [] msg.kind = "not_string" -> "type_error"
      [] msg.kind = "json_scalar" -> "attribute_error"
      [] msg.kind = "json_object" -> "final"
      [] OTHER -> "tool"

\* The assistant message is the final answer: add_to_conversation(assistant message)
\* begins (line 368).
CallAddAssistant(t, amsg, usedTool) ==
    /\ loc' = [loc EXCEPT ![t] =
                 [@ EXCEPT !.amsg = amsg, !.usedTool = usedTool, !.ctx = <<>>,
                           !.msg = [role |-> "assistant", content |-> amsg,
                                    inv |-> loc[t].inv],
                           !.stack = <<"atc_append", "pq_ready">>]]
    /\ pc' = [pc EXCEPT ![t] = "gs_check"]
    /\ res' = res

\* llm_response = requests.post(...), the status check, .json() and the parse of the
\* reply up to the next add_event or add_to_conversation.
PqLlm1(t) ==
    /\ pc[t] = "pq_llm1" /\ Turn(t)
    /\ log' = [log EXCEPT ![t] = Append(@, "llm1")]
    /\ \E out \in HttpOutcomes :
         \E r \in (IF out = "ok" THEN FirstReplies ELSE {NoReply}) :
           LET seen == [obs[t] EXCEPT !.llm1 = out, !.reply = r]
           IN CASE out = "exception" -> Raise(t, "llm_transport", TRUE, seen)
                [] out = "non200" -> Raise(t, "llm_status", TRUE, seen)
                [] out = "malformed" -> Raise(t, "llm_malformed", TRUE, seen)
                [] OTHER ->
                     CASE Classify(r) = "final" ->
                            CallAddAssistant(t, r, FALSE) /\ obs' = [obs EXCEPT ![t] = seen]
                       [] Classify(r) = "type_error" ->
                            Raise(t, "type_error", TRUE, seen)
                       [] Classify(r) = "attribute_error" ->
                            Raise(t, "attribute_error", TRUE, seen)
                       [] OTHER ->
                            \* line 311 reads tool_call["tool"] and tool_call["server"]
                            IF r.kind = "directive_no_tool"
                            THEN Raise(t, "key_error", TRUE, seen)
                            ELSE /\ loc' = [loc EXCEPT ![t] =
                                              [@ EXCEPT !.reply = r, !.amsg = r,
                                                        !.ctx = <<>>,
                                                        !.ev = "tool_call",
                                                        !.stack = <<"pq_call">>]]
                                 /\ pc' = [pc EXCEPT ![t] = "ae_check"]
                                 /\ res' = res
                                 /\ obs' = [obs EXCEPT ![t] = seen]
    /\ UNCHANGED <<mode, now, registry, sessionStore, eventBus, started>>

\* tool_result = await self.call_tool(tool_call['server'], tool_call['tool'],
\*                                    tool_call['arguments'])
PqCall(t) ==
    /\ pc[t] = "pq_call" /\ Turn(t)
    /\ IF loc[t].reply.kind = "directive_no_args"
       THEN Raise(t, "key_error", TRUE, obs[t])
       ELSE /\ obs' = obs
            /\ loc' = [loc EXCEPT ![t] =
                         [@ EXCEPT !.server = loc[t].reply.server,
                                   !.tool = loc[t].reply.tool,
                                   !.args = loc[t].reply.args,
                                   !.stack = <<"pq_tool_result">>]]
            /\ pc' = [pc EXCEPT ![t] = "ct_check"]
            /\ res' = res
    /\ UNCHANGED <<mode, now, registry, sessionStore, eventBus, started, log>>

\* self.add_event(session_id, {'type': 'tool_result', ...})
PqToolResult(t) ==
    /\ pc[t] = "pq_tool_result" /\ Turn(t)
    /\ CallAddEvent(t, "tool_result", "pq_llm2")
    /\ UNCHANGED <<mode, now, obs, registry, sessionStore, eventBus, res, started, log>>

\* A follow-up whose answer is never taken.
AfterFollowUpKept(out, first) == first

\* The assistant message after the follow-up request (lines 347-349): replaced
\* only when the status is 200.
AfterFollowUp(out, first) == IF out = "ok" THEN FinalText ELSE first

\* final_response = requests.post(...) and lines 347-360
PqLlm2(t) ==
    /\ pc[t] = "pq_llm2" /\ Turn(t)
    /\ log' = [log EXCEPT ![t] = Append(@, "llm2")]
    /\ \E out \in HttpOutcomes :
         LET seen == [obs[t] EXCEPT !.llm2 = out]
         IN CASE out = "exception" -> Raise(t, "llm_transport", TRUE, seen)
              [] out = "malformed" -> Raise(t, "llm_malformed", TRUE, seen)
              [] OTHER ->
                   /\ CallAddAssistant(t, AfterFollowUp(out, loc[t].amsg), TRUE)
                   /\ obs' = [obs EXCEPT ![t] =
                                [seen EXCEPT !.fault = IF out = "ok" THEN "none"
                                                       ELSE "llm_status"]]
    /\ UNCHANGED <<mode, now, registry, sessionStore, eventBus, started>>

\* self.add_event(session_id, {'type': 'response_ready', ...})
PqReady(t) ==
    /\ pc[t] = "pq_ready" /\ Turn(t)
    /\ CallAddEvent(t, "response_ready", "pq_return")
    /\ UNCHANGED <<mode, now, obs, registry, sessionStore, eventBus, res, started, log>>

\* return {'success': True, 'session_id': session_id, **response_data}
PqReturn(t) ==
    /\ pc[t] = "pq_return" /\ Turn(t)
    /\ res' = [res EXCEPT ![t] =
                 [NoRes EXCEPT !.kind = "return", !.inv = loc[t].inv, !.success = TRUE,
                               !.session_id = loc[t].sid, !.response = loc[t].amsg,
                               !.has_tool_used = loc[t].usedTool,
                               !.tool_used =
                                   IF loc[t].usedTool
                                   THEN [server |-> loc[t].server, tool |-> loc[t].tool,
                                         arguments |-> loc[t].args,
                                         result |-> loc[t].tres]
                                   ELSE NoToolUsed]]
    /\ loc' = [loc EXCEPT ![t] = Blank]
    /\ pc' = [pc EXCEPT ![t] = "idle"]
    /\ UNCHANGED <<mode, now, obs, registry, sessionStore, eventBus, started, log>>

\* except Exception as e: self.add_event(session_id, {'type': 'error', ...})
PqExcept(t) ==
    /\ pc[t] = "pq_except" /\ Turn(t)
    /\ CallAddEvent(t, "error", "pq_return_err")
    /\ UNCHANGED <<mode, now, obs, registry, sessionStore, eventBus, res, started, log>>

\* return {'success': False, 'error': error_msg, 'session_id': session_id}
PqReturnErr(t) ==
    /\ pc[t] = "pq_return_err" /\ Turn(t)
    /\ res' = [res EXCEPT ![t] =
                 [NoRes EXCEPT !.kind = "return", !.inv = loc[t].inv, !.success = FALSE,
                               !.session_id = loc[t].sid, !.error = loc[t].err]]
    /\ loc' = [loc EXCEPT ![t] = Blank]
    /\ pc' = [pc EXCEPT ![t] = "idle"]
    /\ UNCHANGED <<mode, now, obs, registry, sessionStore, eventBus, started, log>>

\* ------------------------------------------------------------------ add_server
\* POST /servers of mcp_v3.py: the route builds the ServerConfig and runs
\* mcp_manager.add_server(config).
AsStart(t, name) ==
    /\ CanStart(t)
    /\ t \in AdminThreads
    /\ started' = started + 1
    /\ loc' = [loc EXCEPT ![t] = [Blank EXCEPT !.op = "add_server", !.server = name,
                                               !.inv = started + 1]]
    /\ pc' = [pc EXCEPT ![t] = "as_connect"]
    /\ log' = [log EXCEPT ![t] = <<>>]
    /\ res' = [res EXCEPT ![t] = NoRes]
    /\ obs' = [obs EXCEPT ![t] = [NoObs EXCEPT !.op = "add_server", !.name = name,
                                               !.before = connections]]
    /\ UNCHANGED <<mode, now, registry, sessionStore, eventBus>>

\* A list request whose failure is not absorbed.
ListedAnyway(o, items) == items

\* What a best-effort list request leaves in the connection (lines 92-96, 99-103):
\* the listed items, or [] when the request raised or the reply has no such attribute.
Listed(o, items) == IF o = "some" THEN items ELSE <<>>

\* The transport is opened, the session initialised and the capabilities listed
\* (lines 69-103).  An exception of the transport, of initialize() or of the tools
\* request reaches the except clause of line 118: return False.
AsConnect(t) ==
    /\ pc[t] = "as_connect" /\ Turn(t)
    /\ \/ \E f \in ConnectFailures :
            /\ res' = [res EXCEPT ![t] = [NoRes EXCEPT !.kind = "return",
                                                       !.inv = loc[t].inv,
                                                       !.success = FALSE,
                                                       !.error = "connect_failed"]]
            /\ obs' = [obs EXCEPT ![t] =
                         [@ EXCEPT !.connect = f, !.entered = @ + 1,
                                   !.opened = IF f = "transport" THEN 0 ELSE 1]]
            /\ loc' = [loc EXCEPT ![t] = Blank]
            /\ pc' = [pc EXCEPT ![t] = "idle"]
       \/ \E ts \in AdvertisedSets, r \in ListOutcomes, p \in ListOutcomes :
            /\ loc' = [loc EXCEPT ![t] =
                         [@ EXCEPT !.tools = ts,
                                   !.resources = Listed(r, <<"file:///a">>),
                                   !.prompts = Listed(p, <<"greet">>)]]
            /\ obs' = [obs EXCEPT ![t] =
                         [@ EXCEPT !.connect = "ok", !.entered = @ + 1, !.opened = 1,
                                   !.resources = r, !.prompts = p]]
            /\ pc' = [pc EXCEPT ![t] = "as_store"]
            /\ res' = res
    /\ UNCHANGED <<mode, now, registry, sessionStore, eventBus, started, log>>

\* The stdio transport once the block `async with stdio_transport as (read,
\* write)` of line 81 has been left: the context manager closes the transport on
\* every way out of the block, the return of line 116 included.
BlockLeft(transport) == "closed"

\* self.connections[config.name] = MCPConnection(session=session, ...,
\* is_connected=True); return True, which leaves the block of line 81.
AsStore(t) ==
    /\ pc[t] = "as_store" /\ Turn(t)
    /\ connections' = [connections EXCEPT ![loc[t].server] =
                         [present |-> TRUE, is_connected |-> TRUE,
                          tools |-> loc[t].tools, resources |-> loc[t].resources,
                          prompts |-> loc[t].prompts, last_checked |-> NoTime,
                          transport |-> BlockLeft("open")]]
    /\ advertised' = [advertised EXCEPT ![loc[t].server] =
                         [known |-> TRUE, tools |-> loc[t].tools]]
    /\ res' = [res EXCEPT ![t] = [NoRes EXCEPT !.kind = "return", !.inv = loc[t].inv,
                                               !.success = TRUE]]
    /\ loc' = [loc EXCEPT ![t] = Blank]
    /\ pc' = [pc EXCEPT ![t] = "idle"]
    /\ UNCHANGED <<mode, now, obs, sandbox, mcp_client, sessionStore, eventBus, started,
                   log>>

\* ------------------------------------------------------------------ POST /servers, mcp_v4.py
\* The route of lines 218-265: the ServerConfig is built from the request body.
AsV4Start(t, name, cfg) ==
    /\ CanStart(t)
    /\ t \in AdminThreads
    /\ started' = started + 1
    /\ loc' = [loc EXCEPT ![t] = [Blank EXCEPT !.op = "add_server_v4", !.server = name,
                                               !.cfg = cfg, !.inv = started + 1]]
    /\ pc' = [pc EXCEPT ![t] = "v4_validate"]
    /\ log' = [log EXCEPT ![t] = <<>>]
    /\ res' = [res EXCEPT ![t] = NoRes]
    /\ obs' = [obs EXCEPT ![t] = [NoObs EXCEPT !.op = "add_server_v4", !.name = name,
                                               !.cfg = cfg, !.before = connections]]
    /\ UNCHANGED <<mode, now, registry, sessionStore, eventBus>>

\* A route that asks nothing of the configuration.
MissingNothing(cfg) == FALSE

\* Lines 237-242: `not config.command` for stdio, `not config.url` for sse and
\* streamable_http; any other transport type passes.
Missing(cfg) ==
    \/ Lower(cfg.transport_type) = "stdio" /\ cfg.command = ""
    \/ Lower(cfg.transport_type) \in {"sse", "streamable_http"} /\ cfg.url = ""

\* The ValueError of line 239 or 242 reaches the except clause of line 261: 400.
V4Validate(t) ==
    /\ pc[t] = "v4_validate" /\ Turn(t)
    /\ IF Missing(loc[t].cfg)
       THEN /\ res' = [res EXCEPT ![t] = [NoRes EXCEPT !.kind = "return",
                                                       !.inv = loc[t].inv,
                                                       !.success = FALSE,
                                                       !.error = "value_error"]]
            /\ loc' = [loc EXCEPT ![t] = Blank]
            /\ pc' = [pc EXCEPT ![t] = "idle"]
       ELSE /\ pc' = [pc EXCEPT ![t] = "v4_add_server"]
            /\ UNCHANGED <<loc, res>>
    /\ UNCHANGED <<mode, now, obs, registry, sessionStore, eventBus, started, log>>

\* add_server of lines 22-44.  _create_session is a coroutine function (line 51), so
\* `async with self._create_session(config)` of line 48 is given a coroutine object,
\* which is no asynchronous context manager: TypeError before any transport is
\* opened, caught at line 42.  add_server returns False and the route answers 400.
V4AddServer(t) ==
    /\ pc[t] = "v4_add_server" /\ Turn(t)
    /\ res' = [res EXCEPT ![t] = [NoRes EXCEPT !.kind = "return", !.inv = loc[t].inv,
                                               !.success = FALSE,
                                               !.error = "connect_failed"]]
    /\ obs' = [obs EXCEPT ![t] = [@ EXCEPT !.connect = "transport", !.entered = @ + 1]]
    /\ loc' = [loc EXCEPT ![t] = Blank]
    /\ pc' = [pc EXCEPT ![t] = "idle"]
    /\ UNCHANGED <<mode, now, registry, sessionStore, eventBus, started, log>>

\* ------------------------------------------------------------------ call_tool, mcp_v4.py
\* call_tool of lines 85-124 is called with a server and a tool name.
V4CallStart(t, server, tool) ==
    /\ CanStart(t)
    /\ t \in ToolThreads
    /\ started' = started + 1
    /\ loc' = [loc EXCEPT ![t] = [Blank EXCEPT !.op = "call_tool_v4", !.server = server,
                                               !.tool = tool, !.args = "a",
                                               !.inv = started + 1]]
    /\ pc' = [pc EXCEPT ![t] = "v4_ct_check"]
    /\ log' = [log EXCEPT ![t] = <<>>]
    /\ res' = [res EXCEPT ![t] = NoRes]
    /\ obs' = [obs EXCEPT ![t] = [NoObs EXCEPT !.op = "call_tool_v4", !.name = server]]
    /\ UNCHANGED <<mode, now, registry, sessionStore, eventBus>>

\* if server_name not in self.connections: raise ValueError (lines 87-88)
V4CtCheck(t) ==
    /\ pc[t] = "v4_ct_check" /\ Turn(t)
    /\ IF ~connections[loc[t].server].present
       THEN Raise(t, "server_not_found", FALSE, [obs[t] EXCEPT !.unknownServer = TRUE])
       ELSE /\ pc' = [pc EXCEPT ![t] = "v4_ct_connected"]
            /\ UNCHANGED <<loc, res, obs>>
    /\ UNCHANGED <<mode, now, registry, sessionStore, eventBus, started, log>>

\* if not connection.is_connected: raise ValueError (lines 90-92)
V4CtConnected(t) ==
    /\ pc[t] = "v4_ct_connected" /\ Turn(t)
    /\ IF ~connections[loc[t].server].is_connected
       THEN Raise(t, "server_not_connected", FALSE, obs[t])
       ELSE /\ pc' = [pc EXCEPT ![t] = "v4_ct_session"]
            /\ obs' = [obs EXCEPT ![t].connect = "checked"]
            /\ UNCHANGED <<loc, res>>
    /\ UNCHANGED <<mode, now, registry, sessionStore, eventBus, started, log>>

\* Whether `async with x` can enter x: an object with __aenter__ and __aexit__ can,
\* a coroutine object cannot (TypeError).
Enterable(x) == x = "context_manager"

\* What self._create_session(config) evaluates to without await: _create_session is
\* declared `async def` (line 51), so the call gives a coroutine object.
Created(cfg) == "coroutine"

\* async with self._create_session(connection.config) as session (line 96): the
\* TypeError is raised before any transport is opened and caught at line 118; the
\* dictionary of lines 120-124 is returned.  Lines 97-116 are never reached.
V4CtSession(t) ==
    /\ pc[t] = "v4_ct_session" /\ Turn(t)
    /\ ~Enterable(Created(loc[t].cfg))
    /\ res' = [res EXCEPT ![t] = [NoRes EXCEPT !.kind = "return", !.inv = loc[t].inv,
                                               !.success = FALSE,
                                               !.error = "tool_exception",
                                               !.tool_result = ToolResult("exception")]]
    /\ obs' = [obs EXCEPT ![t].fault = "type_error"]
    /\ loc' = [loc EXCEPT ![t] = Blank]
    /\ pc' = [pc EXCEPT ![t] = "idle"]
    /\ UNCHANGED <<mode, now, registry, sessionStore, eventBus, started, log>>

\* ------------------------------------------------------------------ add_sse_server, mcp_v2.py
\* AISandboxMCPClient.add_sse_server(config) is called.
V2SseStart(t, name, url) ==
    /\ CanStart(t)
    /\ t \in AdminThreads
    /\ started' = started + 1
    /\ loc' = [loc EXCEPT ![t] =
                 [Blank EXCEPT !.op = "add_sse_server", !.server = name,
                               !.cfg = [transport_type |-> "sse", command |-> "python3",
                                        url |-> url],
                               !.inv = started + 1]]
    /\ pc' = [pc EXCEPT ![t] = "v2_sse_check"]
    /\ log' = [log EXCEPT ![t] = <<>>]
    /\ res' = [res EXCEPT ![t] = NoRes]
    /\ obs' = [obs EXCEPT ![t] =
                 [NoObs EXCEPT !.op = "add_sse_server", !.name = name,
                               !.before = connections, !.clientBefore = sandbox,
                               !.cfg = [transport_type |-> "sse", command |-> "python3",
                                        url |-> url]]]
    /\ UNCHANGED <<mode, now, registry, sessionStore, eventBus>>

\* if not config.url: raise ValueError("SSE server requires URL"), before the try
V2SseCheck(t) ==
    /\ pc[t] = "v2_sse_check" /\ Turn(t)
    /\ IF loc[t].cfg.url = ""
       THEN Raise(t, "value_error", FALSE, obs[t])
       ELSE /\ pc' = [pc EXCEPT ![t] = "v2_sse_connect"]
            /\ UNCHANGED <<loc, res, obs>>
    /\ UNCHANGED <<mode, now, registry, sessionStore, eventBus, started, log>>

\* tool_key = f"{server_name}:{tool.name}" (line 102)
Key(server, tool) == server \o ":" \o tool

\* server_name, tool_name = tool_key.split(':', 1), for a key of self.tools
ServerOf(k) == CHOOSE sv \in ServerNames : \E tl \in ToolNames : Key(sv, tl) = k
ToolOf(k) == CHOOSE tl \in ToolNames : \E sv \in ServerNames : Key(sv, tl) = k

\* The keys of a dictionary after d[k] = v: a new key goes last, a key that is
\* there keeps its place.
Inserted(keys, k) ==
    IF \E i \in 1..Len(keys) : keys[i] = k THEN keys ELSE Append(keys, k)

\* Lines 78-92 and _discover_server_capabilities (94-117).  An exception of
\* sse_client or of initialize() is logged; after initialize() the session and the
\* configuration are stored, and the tools are stored when list_tools answers (its
\* exception is logged at line 117), and then the resources when list_resources
\* answers (its exception is logged at line 114).  The method returns None on
\* every path.
V2SseConnect(t) ==
    /\ pc[t] = "v2_sse_connect" /\ Turn(t)
    /\ \/ \E f \in {"transport", "handshake"} :
            /\ obs' = [obs EXCEPT ![t] =
                         [@ EXCEPT !.connect = f, !.entered = @ + 1,
                                   !.opened = IF f = "transport" THEN 0 ELSE 1]]
            /\ sandbox' = sandbox
       \/ \E f \in {"list_tools", "ok"}, ts \in AdvertisedSets, r \in ListOutcomes :
            /\ f = "list_tools" => ts = {} /\ r = "raised"
            /\ obs' = [obs EXCEPT ![t] =
                         [@ EXCEPT !.connect = f, !.entered = @ + 1, !.opened = 1,
                                   !.resources = IF f = "ok" THEN r ELSE "none"]]
            /\ sandbox' =
                 [sessions |-> Inserted(sandbox.sessions, loc[t].server),
                  server_configs |-> sandbox.server_configs \cup {loc[t].server},
                  tools |-> sandbox.tools \cup {Key(loc[t].server, tl) : tl \in ts},
                  resources |-> IF r = "some"
                                THEN sandbox.resources
                                       \cup {Key(loc[t].server, "file:///a")}
                                ELSE sandbox.resources]
    /\ res' = [res EXCEPT ![t] = [NoRes EXCEPT !.kind = "return", !.inv = loc[t].inv]]
    /\ loc' = [loc EXCEPT ![t] = Blank]
    /\ pc' = [pc EXCEPT ![t] = "idle"]
    /\ UNCHANGED <<mode, now, connections, advertised, mcp_client, sessionStore,
                   eventBus, started, log>>

\* ------------------------------------------------------------------ call_tool, mcp_v2.py
\* What a caller passes as tool_key: a key of self.tools, or a tool name alone.
ToolKeys == {Key(sv, tl) : sv \in ServerNames, tl \in ToolNames} \cup ToolNames

\* AISandboxMCPClient.call_tool(tool_key, arguments), lines 119-146: None when the
\* key is not in self.tools, when the server has no session, and when the
\* invocation or the read of response.content raises; else response.content.
V2CallTool(t, key) ==
    /\ CanStart(t)
    /\ t \in ToolThreads
    /\ started' = started + 1
    /\ log' = [log EXCEPT ![t] = <<>>]
    /\ IF key \notin sandbox.tools
       THEN /\ res' = [res EXCEPT ![t] = [NoRes EXCEPT !.kind = "return",
                                                       !.inv = started + 1,
                                                       !.error = "tool_not_found"]]
            /\ obs' = [obs EXCEPT ![t] = [NoObs EXCEPT !.op = "v2_call_tool",
                                                       !.key = key,
                                                       !.clientBefore = sandbox]]
       ELSE IF \A i \in 1..Len(sandbox.sessions) : sandbox.sessions[i] # ServerOf(key)
       THEN /\ res' = [res EXCEPT ![t] = [NoRes EXCEPT !.kind = "return",
                                                       !.inv = started + 1,
                                                       !.error = "no_session"]]
            /\ obs' = [obs EXCEPT ![t] = [NoObs EXCEPT !.op = "v2_call_tool",
                                                       !.key = key,
                                                       !.clientBefore = sandbox]]
       ELSE \E o \in InvokeOutcomes :
            /\ res' = [res EXCEPT ![t] =
                         [NoRes EXCEPT !.kind = "return", !.inv = started + 1,
                                       !.success = ToolResult(o).shape = "content",
                                       !.error = IF ToolResult(o).shape = "content"
                                                 THEN "none" ELSE "tool_exception"]]
            /\ obs' = [obs EXCEPT ![t] =
                         [NoObs EXCEPT !.op = "v2_call_tool", !.key = key,
                                       !.clientBefore = sandbox,
                                       !.invoked = 1, !.outcome = o,
                                       !.call = [kind |-> "call",
                                                 server |-> ServerOf(key),
                                                 tool |-> ToolOf(key), args |-> "a"]]]
    /\ UNCHANGED <<mode, now, registry, sessionStore, eventBus, pc, loc>>

\* ------------------------------------------------------------------ close_all_sessions, mcp_v2.py
\* A close that clears the sessions only.
ClosedSessionsOnly(client) == [client EXCEPT !.sessions = <<>>]

\* self.sessions.clear(); self.tools.clear(); self.resources.clear() (lines 190-192)
Closed(client) ==
    [client EXCEPT !.sessions = <<>>, !.tools = {}, !.resources = {}]

\* AISandboxMCPClient.close_all_sessions: every session.close() is awaited inside a
\* try whose except clause logs the exception (lines 184-188), then the three
\* dictionaries are cleared.
V2CloseAll(t) ==
    /\ CanStart(t)
    /\ t \in AdminThreads
    /\ started' = started + 1
    /\ log' = [log EXCEPT ![t] = <<>>]
    /\ \E raised \in (IF sandbox.sessions = <<>> THEN {FALSE} ELSE BOOLEAN) :
         obs' = [obs EXCEPT ![t] =
                   [NoObs EXCEPT !.op = "close_all_sessions", !.clientBefore = sandbox,
                                 !.fault = IF raised THEN "close_logged" ELSE "none"]]
    /\ sandbox' = Closed(sandbox)
    /\ res' = [res EXCEPT ![t] = [NoRes EXCEPT !.kind = "return", !.inv = started + 1]]
    /\ UNCHANGED <<mode, now, connections, advertised, mcp_client, sessionStore,
                   eventBus, pc, loc>>

\* ------------------------------------------------------------------ read_resource, mcp_v2.py
\* resource_key = f"{server_name}:{resource.uri}" (line 110)
ResourceKeys == {Key(sv, u) : sv \in ServerNames, u \in ResourceUris}

\* resource_key.split(':', 1)[0], for a key of self.resources
ResourceServer(k) == CHOOSE sv \in ServerNames : \E u \in ResourceUris : Key(sv, u) = k

\* AISandboxMCPClient.read_resource(resource_key), lines 148-172: None when the key
\* is not in self.resources, when the server has no session, and when the read
\* raises; else response.contents.
V2ReadResource(t, key) ==
    /\ CanStart(t)
    /\ t \in ToolThreads
    /\ started' = started + 1
    /\ log' = [log EXCEPT ![t] = <<>>]
    /\ IF key \notin sandbox.resources
       THEN /\ res' = [res EXCEPT ![t] = [NoRes EXCEPT !.kind = "return",
                                                       !.inv = started + 1,
                                                       !.error = "resource_not_found"]]
            /\ obs' = [obs EXCEPT ![t] = [NoObs EXCEPT !.op = "v2_read_resource",
                                                       !.key = key,
                                                       !.clientBefore = sandbox]]
       ELSE IF \A i \in 1..Len(sandbox.sessions) :
                  sandbox.sessions[i] # ResourceServer(key)
       THEN /\ res' = [res EXCEPT ![t] = [NoRes EXCEPT !.kind = "return",
                                                       !.inv = started + 1,
                                                       !.error = "no_session"]]
            /\ obs' = [obs EXCEPT ![t] = [NoObs EXCEPT !.op = "v2_read_resource",
                                                       !.key = key,
                                                       !.clientBefore = sandbox]]
       ELSE \E ok \in BOOLEAN :
            /\ res' = [res EXCEPT ![t] =
                         [NoRes EXCEPT !.kind = "return", !.inv = started + 1,
                                       !.success = ok,
                                       !.error = IF ok THEN "none" ELSE "read_exception"]]
            /\ obs' = [obs EXCEPT ![t] =
                         [NoObs EXCEPT !.op = "v2_read_resource", !.key = key,
                                       !.clientBefore = sandbox, !.invoked = 1,
                                       !.call = [kind |-> "read",
                                                 server |-> ResourceServer(key),
                                                 tool |-> "none", args |-> key]]]
    /\ UNCHANGED <<mode, now, registry, sessionStore, eventBus, pc, loc>>

\* ------------------------------------------------------------------ MCPClient, mcp.py
\* The aiohttp session of the client can carry a request: self.session is not
\* None and has not been closed.
SessionUsable(c) == c.session # 0 /\ c.handles[c.session].open

\* One operation of MCPClient was called by thread t and returned: what its caller
\* got, and what was observed of it.
McDone(t, value, seen) ==
    /\ CanStart(t)
    /\ t \in AdminThreads
    /\ started' = started + 1
    /\ log' = [log EXCEPT ![t] = <<>>]
    /\ res' = [res EXCEPT ![t] = [value EXCEPT !.kind = "return", !.inv = started + 1]]
    /\ obs' = [obs EXCEPT ![t] = seen]
    /\ UNCHANGED <<mode, now, connections, advertised, sandbox, sessionStore, eventBus,
                   pc, loc>>

\* __aenter__: self.session = aiohttp.ClientSession().  `async with` pairs every
\* __aenter__ with its __aexit__ (lines 281 and 298), so the context is entered
\* only when it is not active.
McEnter(t) ==
    /\ ~SessionUsable(mcp_client)
    /\ mcp_client' = [mcp_client EXCEPT
                        !.handles = Append(@, [kind |-> "http_session", open |-> TRUE]),
                        !.session = Len(mcp_client.handles) + 1]
    /\ McDone(t, NoRes, [NoObs EXCEPT !.op = "aenter"])

\* MCPClient.add_server: self.servers[server.name] = server
McAddServer(t, name, transport) ==
    /\ mcp_client' = [mcp_client EXCEPT !.servers[name] = transport]
    /\ McDone(t, NoRes, [NoObs EXCEPT !.op = "mc_add_server", !.name = name])

\* How opening the transport of a configured server can end.  _connect_http sends
\* its health check on self.session (line 101): without a usable session that
\* raises, and so does a status other than 200 (line 110); websockets.connect
\* (line 118) raises or gives a websocket.
Opens(c, name) ==
    IF c.servers[name] = "http" /\ ~SessionUsable(c) THEN {"transport"}
    ELSE {"transport", "ok"}

\* The client once the transport of server name is open: the dictionary of lines
\* 103-107 or 119-122 is stored under the name, with a new websocket handle for
\* the websocket transport.
Linked(c, name) ==
    IF c.servers[name] = "http"
    THEN [c EXCEPT !.connections[name] = [type |-> "http", websocket |-> 0]]
    ELSE [c EXCEPT !.handles = Append(@, [kind |-> "websocket", open |-> TRUE]),
                   !.connections[name] = [type |-> "websocket",
                                          websocket |-> Len(c.handles) + 1]]

\* How the tools/list request of _discover_capabilities can end: "failed" (the
\* request raised or was answered without a result: _send_request gives None,
\* lines 181-183 and 135), "malformed" (an entry without a name raises inside the
\* loop, caught at line 165, and the resources request is skipped), "empty",
\* "some" (the server lists every tool of ToolNames).
ToolsAnswers == {"failed", "malformed", "empty", "some"}

\* _discover_capabilities (lines 125-166): every listed tool is stored under
\* "server:tool" (line 143) and every listed resource under its URI (line 162),
\* each with the server_name of the server that listed it.
Discovered(c, name, tq, rq) ==
    [c EXCEPT !.tools = [k \in DOMAIN @ |->
                           IF tq = "some" /\ k \in {Key(name, tl) : tl \in ToolNames}
                           THEN name ELSE @[k]],
              !.resources = [u \in DOMAIN @ |->
                               IF tq # "malformed" /\ rq = "some" THEN name ELSE @[u]]]

\* connect_to_server (lines 69-92): False for a name that is not configured, for a
\* transport type that is not implemented and when opening the transport raises;
\* else the capabilities are discovered and the method returns True.
McConnect(t, name) ==
    LET seen == [NoObs EXCEPT !.op = "connect_to_server", !.name = name,
                              !.entered = 1]
    IN IF mcp_client.servers[name] = "none"
       THEN /\ mcp_client' = mcp_client
            /\ McDone(t, NoRes, [seen EXCEPT !.connect = "not_found"])
       ELSE IF mcp_client.servers[name] = "stdio"
       THEN /\ mcp_client' = mcp_client
            /\ McDone(t, NoRes, [seen EXCEPT !.connect = "not_implemented"])
       ELSE \E o \in Opens(mcp_client, name) :
              IF o = "transport"
              THEN /\ mcp_client' = mcp_client
                   /\ McDone(t, [NoRes EXCEPT !.error = "connect_exception"],
                             [seen EXCEPT !.connect = "transport"])
              ELSE \E tq \in ToolsAnswers, rq \in ListOutcomes :
                     /\ mcp_client' = Discovered(Linked(mcp_client, name), name, tq, rq)
                     /\ McDone(t, [NoRes EXCEPT !.success = TRUE],
                               [seen EXCEPT
                                  !.connect = IF tq \in {"failed", "malformed"}
                                              THEN "list_tools" ELSE "ok",
                                  !.opened = 1,
                                  !.resources = IF tq = "malformed" THEN "none" ELSE rq])

\* _send_request (lines 168-183) can put a request on the wire: the server has an
\* entry in self.connections, and its HTTP session or its websocket is open.
Sendable(c, server) ==
    \/ c.connections[server].type = "http" /\ SessionUsable(c)
    \/ /\ c.connections[server].type = "websocket"
       /\ c.handles[c.connections[server].websocket].open

\* MCPClient.call_tool (lines 205-231): None for a name that is not a key of
\* self.tools; else a tools/call request goes to tool.server_name, and the method
\* returns its result, or None when there is none.
McCallTool(t, key) ==
    /\ mcp_client' = mcp_client
    /\ LET seen == [NoObs EXCEPT !.op = "mc_call_tool", !.key = key]
       IN IF key \notin DOMAIN mcp_client.tools \/ mcp_client.tools[key] = "none"
          THEN McDone(t, [NoRes EXCEPT !.error = "tool_not_found"], seen)
          ELSE IF ~Sendable(mcp_client, mcp_client.tools[key])
          THEN McDone(t, [NoRes EXCEPT !.error = "no_response"], seen)
          ELSE \E ok \in BOOLEAN :
                 McDone(t, [NoRes EXCEPT !.success = ok,
                                         !.error = IF ok THEN "none" ELSE "no_response"],
                        [seen EXCEPT !.invoked = 1,
                                     !.call = [kind |-> "call",
                                               server |-> mcp_client.tools[key],
                                               tool |-> ToolOf(key), args |-> "a"]])

\* MCPClient.read_resource (lines 233-258): None for a URI that is not a key of
\* self.resources; else a resources/read request goes to resource.server_name.
McReadResource(t, uri) ==
    /\ mcp_client' = mcp_client
    /\ LET seen == [NoObs EXCEPT !.op = "mc_read_resource", !.key = uri]
       IN IF mcp_client.resources[uri] = "none"
          THEN McDone(t, [NoRes EXCEPT !.error = "resource_not_found"], seen)
          ELSE IF ~Sendable(mcp_client, mcp_client.resources[uri])
          THEN McDone(t, [NoRes EXCEPT !.error = "no_response"], seen)
          ELSE \E ok \in BOOLEAN :
                 McDone(t, [NoRes EXCEPT !.success = ok,
                                         !.error = IF ok THEN "none" ELSE "no_response"],
                        [seen EXCEPT !.invoked = 1,
                                     !.call = [kind |-> "read",
                                               server |-> mcp_client.resources[uri],
                                               tool |-> "none", args |-> uri]])

\* hasattr(connection, 'close') of line 61: the values of self.connections are the
\* dictionaries of lines 103-107 and 119-122, and a dict has no attribute close.
HasClose(link) == link.type \notin {"none", "http", "websocket"}

\* __aexit__ (lines 55-62): the aiohttp session is closed when there is one, and
\* connection.close() is awaited for every value of self.connections that has a
\* close attribute.  It runs when the block of an active context is left.
McExit(t) ==
    /\ SessionUsable(mcp_client)
    /\ mcp_client' =
         [mcp_client EXCEPT
            !.handles =
               [i \in 1..Len(@) |->
                  IF \/ i = mcp_client.session
                     \/ \E sv \in ServerNames :
                          /\ HasClose(mcp_client.connections[sv])
                          /\ mcp_client.connections[sv].websocket = i
                  THEN [@[i] EXCEPT !.open = FALSE]
                  ELSE @[i]]]
    /\ McDone(t, NoRes, [NoObs EXCEPT !.op = "aexit"])

\* ------------------------------------------------------------------ GET /servers
\* A listing that reports no tool.
ReportedBare(conn) ==
    [is_connected |-> conn.is_connected, tools |-> {},
     resources |-> Len(conn.resources), prompts |-> Len(conn.prompts)]

\* One entry of the listing (lines 457-469): the tool names, and the two counts.
Reported(conn) ==
    [is_connected |-> conn.is_connected, tools |-> conn.tools,
     resources |-> Len(conn.resources), prompts |-> Len(conn.prompts)]

\* list_servers: for name, conn in mcp_manager.connections.items(): ...
ListServers(t) ==
    /\ CanStart(t)
    /\ t \in AdminThreads
    /\ started' = started + 1
    /\ res' = [res EXCEPT ![t] =
                 [NoRes EXCEPT !.kind = "servers", !.inv = started + 1,
                               !.servers = [s \in Registered |->
                                              Reported(connections[s])]]]
    /\ log' = [log EXCEPT ![t] = <<>>]
    /\ obs' = [obs EXCEPT ![t] = NoObs]
    /\ UNCHANGED <<mode, now, registry, sessionStore, eventBus, pc, loc>>

\* ------------------------------------------------------------------ POST /tools/call
\* call_tool_direct with a server and a tool name: mcp_manager.call_tool(...).
\* The route reads 'server', 'tool' and 'arguments' of the request body (lines
\* 554-557); a 'session_id' the body carries is read nowhere.
CallStart(t, server, tool, sid) ==
    /\ CanStart(t)
    /\ t \in ToolThreads
    /\ started' = started + 1
    /\ loc' = [loc EXCEPT ![t] = [Blank EXCEPT !.op = "call_tool", !.server = server,
                                               !.tool = tool, !.args = "a",
                                               !.inv = started + 1,
                                               !.stack = <<"call_ret">>]]
    /\ pc' = [pc EXCEPT ![t] = "ct_check"]
    /\ log' = [log EXCEPT ![t] = <<>>]
    /\ res' = [res EXCEPT ![t] = NoRes]
    /\ obs' = [obs EXCEPT ![t] = [NoObs EXCEPT !.session = sid]]
    /\ UNCHANGED <<mode, now, registry, sessionStore, eventBus>>

\* call_tool returned its dictionary to the route
CallRet(t) ==
    /\ pc[t] = "call_ret" /\ Turn(t)
    /\ res' = [res EXCEPT ![t] = [NoRes EXCEPT !.kind = "return", !.inv = loc[t].inv,
                                               !.success = loc[t].tres.success,
                                               !.error = loc[t].tres.error,
                                               !.tool_result = loc[t].tres]]
    /\ loc' = [loc EXCEPT ![t] = Blank]
    /\ pc' = [pc EXCEPT ![t] = "idle"]
    /\ UNCHANGED <<mode, now, obs, registry, sessionStore, eventBus, started, log>>

\* ------------------------------------------------------------------ GET history
\* session = mcp_manager.get_session(session_id)
HistStart(t, sid) ==
    /\ CanStart(t)
    /\ t \in HistoryThreads
    /\ started' = started + 1
    /\ loc' = [loc EXCEPT ![t] = [Blank EXCEPT !.op = "history", !.sid = sid,
                                               !.inv = started + 1,
                                               !.stack = <<"hist_ret">>]]
    /\ pc' = [pc EXCEPT ![t] = "gs_check"]
    /\ log' = [log EXCEPT ![t] = <<>>]
    /\ res' = [res EXCEPT ![t] = NoRes]
    /\ obs' = [obs EXCEPT ![t] = NoObs]
    /\ UNCHANGED <<mode, now, registry, sessionStore, eventBus>>

\* return jsonify({'history': session.conversation_history, ...})
HistRet(t) ==
    /\ pc[t] = "hist_ret" /\ Turn(t)
    /\ res' = [res EXCEPT ![t] =
                 [NoRes EXCEPT !.kind = "return", !.inv = loc[t].inv, !.success = TRUE,
                               !.session_id = loc[t].sid,
                               !.history = sessObjs[loc[t].sess].conversation_history]]
    /\ loc' = [loc EXCEPT ![t] = Blank]
    /\ pc' = [pc EXCEPT ![t] = "idle"]
    /\ UNCHANGED <<mode, now, obs, registry, sessionStore, eventBus, started, log>>

\* ------------------------------------------------------------------ GET /sessions
\* The session ids that are keys of self.sessions.
Known == {sid \in SessionIds : sessions[sid] # 0}

\* list_sessions (lines 540-548) reads self.sessions itself: created_at,
\* last_activity and len(conversation_history) of every session.
ListSessions(t) ==
    /\ CanStart(t)
    /\ t \in HistoryThreads
    /\ started' = started + 1
    /\ res' = [res EXCEPT ![t] =
                 [NoRes EXCEPT !.kind = "sessions", !.inv = started + 1, !.at = now,
                               !.sessions =
                                   [sid \in Known |->
                                      [created_at |-> sessObjs[sessions[sid]].created_at,
                                       last_activity |->
                                           sessObjs[sessions[sid]].last_activity,
                                       message_count |->
                                           Len(sessObjs[sessions[sid]].conversation_history)]]]]
    /\ log' = [log EXCEPT ![t] = <<>>]
    /\ obs' = [obs EXCEPT ![t] = NoObs]
    /\ UNCHANGED <<mode, now, registry, sessionStore, eventBus, pc, loc>>

\* ------------------------------------------------------------------ the clock
\* Time passes: the next datetime.now() reads a later time.
Tick ==
    /\ now < MaxClock
    /\ now' = now + 1
    /\ UNCHANGED <<mode, obs, registry, sessionStore, eventBus, pc, loc, res, started, log>>

\* ------------------------------------------------------------------ specifications
\* A request of an administrator arrives: add a server, list the servers, call a tool.
BeginAdmin(t) ==
    \/ \E name \in ServerNames : AsStart(t, name)
    \/ \E s \in ServerNames, tl \in ToolNames, sid \in Carried \cup {"none"} :
         CallStart(t, s, tl, sid)
    \/ ListServers(t)

\* A request to the multi-transport add-server operations arrives.
BeginTransport(t) ==
    \/ \E name \in ServerNames, cfg \in Configs : AsV4Start(t, name, cfg)
    \/ \E name \in ServerNames, url \in {"", "http://h/sse"} : V2SseStart(t, name, url)
    \/ \E s \in ServerNames, tl \in ToolNames : V4CallStart(t, s, tl)

\* A request that works on a session arrives.
BeginSession(t) ==
    \/ \E sid \in Carried : PqStart(t, sid)
    \/ \E sid \in Carried : SeConnect(t, sid)
    \/ \E sid \in Carried : HistStart(t, sid)

\* A request arrives.
Begin(t) == BeginAdmin(t) \/ BeginSession(t)

\* A step of call_tool.
RunTool(t) == CtCheck(t) \/ CtConnected(t) \/ CtSend(t) \/ CtInvoke(t)

\* A request of an administrator takes its next step.
RunAdmin(t) == RunTool(t) \/ AsConnect(t) \/ AsStore(t) \/ CallRet(t)

\* A multi-transport add-server request takes its next step.
RunTransport(t) ==
    \/ V4Validate(t) \/ V4AddServer(t) \/ V2SseCheck(t) \/ V2SseConnect(t)
    \/ V4CtCheck(t) \/ V4CtConnected(t) \/ V4CtSession(t)

\* A step of process_query, outside call_tool.
RunQuery(t) ==
    \/ GsCheck(t) \/ GsCreate(t) \/ GsTouch(t) \/ GsRet(t) \/ AtcAppend(t)
    \/ AeCheck(t) \/ AeCreate(t) \/ AeLoad(t) \/ AeAppend(t)
    \/ PqProcessing(t) \/ PqIterBegin(t) \/ PqIterEnd(t) \/ PqCtx(t) \/ PqLlm1(t)
    \/ PqCall(t) \/ PqToolResult(t) \/ PqLlm2(t) \/ PqReady(t) \/ PqReturn(t)
    \/ PqExcept(t) \/ PqReturnErr(t)

\* A step of an /events stream.
RunStream(t) == GeLoad(t) \/ GeStore(t) \/ SeIter(t) \/ SePoll(t) \/ SeClose(t)

\* A request that works on a session takes its next step.
RunSession(t) == RunQuery(t) \/ RunStream(t) \/ HistRet(t)

\* A request in progress takes its next step.
Run(t) == RunAdmin(t) \/ RunSession(t)

Next == \E t \in Threads : Begin(t) \/ Run(t)

NextReg ==
    \E t \in Threads :
        BeginAdmin(t) \/ BeginTransport(t) \/ RunAdmin(t) \/ RunTransport(t)

\* The operations of AISandboxMCPClient.
NextSandbox ==
    \E t \in Threads :
        \/ \E name \in ServerNames, url \in {"", "http://h/sse"} : V2SseStart(t, name, url)
        \/ V2SseCheck(t) \/ V2SseConnect(t)
        \/ \E key \in ToolKeys : V2CallTool(t, key)
        \/ V2CloseAll(t)

\* The operations of MCPClient and of AISandboxMCPClient, one at a time.
NextClient ==
    \E t \in Threads :
        \/ McEnter(t) \/ McExit(t)
        \/ \E name \in ServerNames, tr \in {"http", "websocket", "stdio"} :
             McAddServer(t, name, tr)
        \/ \E name \in ServerNames : McConnect(t, name)
        \/ \E key \in ToolKeys : McCallTool(t, key)
        \/ \E uri \in ResourceUris : McReadResource(t, uri)
        \/ \E name \in ServerNames, url \in {"", "http://h/sse"} : V2SseStart(t, name, url)
        \/ V2SseCheck(t) \/ V2SseConnect(t)
        \/ \E key \in ToolKeys : V2CallTool(t, key)
        \/ \E key \in ResourceKeys : V2ReadResource(t, key)

\* Time passes between the steps, and the sessions are listed with their times.
NextClock == Next \/ Tick \/ \E t \in Threads : ListSessions(t)

\* The queries alone.
NextCtx ==
    \E t \in Threads :
        (\E sid \in Carried : PqStart(t, sid)) \/ RunQuery(t) \/ RunTool(t)

\* Queries and direct tool calls on request threads of their own.
NextShare ==
    \E t \in Threads :
        \/ \E sid \in Carried : PqStart(t, sid)
        \/ \E s \in ServerNames, tl \in ToolNames, sid \in Carried \cup {"none"} :
             CallStart(t, s, tl, sid)
        \/ RunQuery(t) \/ RunTool(t) \/ CallRet(t)

\* Queries on their request thread and one consumer of the session's events.
NextStream ==
    \/ \E sid \in Carried : SeConnect("e1", sid)
    \/ \E t \in Threads :
         \/ \E sid \in Carried : PqStart(t, sid)
         \/ RunQuery(t) \/ RunTool(t) \/ RunStream(t)

\* One handler at a time.
Spec == Init /\ [][Next]_vars

\* Threaded request handling with one /events stream.
SpecStream == InitShare /\ [][NextStream]_vars

\* process_query and the /events stream of its session, one handler at a time.
SpecDrain == InitDrain /\ [][NextStream]_vars

\* Threaded request handling with a server connected.
SpecShare == InitShare /\ [][NextShare]_vars

\* Threaded request handling: any thread may take the next step.
SpecConc == InitConc /\ [][Next]_vars

\* One handler at a time; time passes and is read.
SpecClock == Init /\ [][NextClock]_vars

\* One process_query on a session that has a history.
SpecCtx == InitCtx /\ [][NextCtx]_vars

\* The same, with the coroutine of a request that has started run on: the event
\* loop of its thread runs it until it completes (run_until_complete, line 492),
\* and each LLM request and each tool invocation it awaits ends.
SpecLive ==
    InitCtx /\ [][NextCtx]_vars
      /\ WF_vars(\E t \in QueryThreads : RunQuery(t) \/ RunTool(t))

\* The operations of AISandboxMCPClient, one at a time.
SpecSandbox == InitSandbox /\ [][NextSandbox]_vars

\* The administrator's requests, one at a time.
SpecReg == InitReg /\ [][NextReg]_vars

\* The two stand-alone clients, one operation at a time.
SpecClient == InitClient /\ [][NextClient]_vars

\* ------------------------------------------------------------------ properties
Range(s) == {s[i] : i \in 1..Len(s)}

IsPrefix(a, b) == Len(a) <= Len(b) /\ a = SubSeq(b, 1, Len(a))

\* C1: with the handlers run one at a time, a get_events returns exactly the events
\* that add_event appended for that session id since the previous get_events, in
\* the order they were appended; so a get_events that follows another with no
\* add_event in between returns the empty list.
C1_DrainReturnsPublished ==
    \A t \in StreamThreads : pc[t] = "se_iter" => loc[t].got = loc[t].want

\* A stream whose previous poll returned at least three events and whose next poll,
\* with nothing published in between, returned none.
C1_SecondDrainEmpty ==
    \E t \in StreamThreads :
        pc[t] = "se_iter" /\ loc[t].got = <<>> /\ loc[t].want = <<>> /\ loc[t].prevLen >= 3

\* Events a stream holds and has not emitted yet.
Unread(t) ==
    IF pc[t] \in {"ge_store", "se_iter"}
    THEN {EventsOf(loc[t].events)[i].id :
            i \in (loc[t].idx + 1)..Len(EventsOf(loc[t].events))}
    ELSE {}

\* Events waiting in a queue of the manager.
Queued == UNION {{e.id : e \in Range(EventsOf(event_queues[s]))} : s \in SessionIds}

\* C2: with add_event and get_events interleaved by threads, every published event
\* reaches the consumer of exactly one get_events: none is emitted twice, and one
\* that has not been emitted is still waiting in its queue or in a drained list
\* that is being emitted.
C2_EveryEventDrainedOnce ==
    \A id \in 1..Len(delivered) :
        /\ delivered[id] <= 1
        /\ delivered[id] = 0 => id \in Queued \cup UNION {Unread(t) : t \in StreamThreads}

\* C3: every message appended through a SessionData returned by get_session is in
\* the history of the session that MCPClientManager.sessions holds for that id.
C3_OneLiveInstance ==
    \A sid \in SessionIds :
        \A i \in 1..Len(appended[sid]) :
            /\ sessions[sid] # 0
            /\ appended[sid][i] \in Range(sessObjs[sessions[sid]].conversation_history)

\* C4: process_query never raises to its caller, and an invocation in which an LLM
\* request failed or a step raised returns success false with an error, after
\* publishing an error event.
C4_NeverRaisesAlwaysReports ==
    \A t \in QueryThreads :
        /\ res[t].kind # "raise"
        /\ (res[t].kind = "return" /\ obs[t].fault # "none")
             => /\ ~res[t].success
                /\ res[t].error # "none"
                /\ "ev:error" \in Range(log[t])

\* The first reply is text, a JSON object with another action, or another JSON value.
NotDirective(r) == r.kind \in {"text", "json_object", "json_scalar"}

\* C5: when the first LLM reply is not the tool-call directive, process_query returns
\* success true with that reply as the response, without tool_used, and no tool is
\* invoked.
C5_NonDirectiveIsFinal ==
    \A t \in QueryThreads :
        (res[t].kind = "return" /\ obs[t].llm1 = "ok" /\ NotDirective(obs[t].reply))
          => /\ res[t].success
             /\ res[t].response = obs[t].reply
             /\ ~res[t].has_tool_used
             /\ obs[t].invoked = 0

\* C6: when the directive names a server that is not in the registry, process_query
\* is not aborted by it: the tool_result event is published and the follow-up LLM
\* request is sent.
C6_UnknownServerIsToolFailure ==
    \A t \in QueryThreads :
        (res[t].kind = "return" /\ obs[t].unknownServer)
          => /\ "ev:tool_result" \in Range(log[t])
             /\ obs[t].llm2 # "none"
             /\ res[t].error # "server_not_found"

\* C7: call_tool with a server name that is not in connections returns
\* {success: false, error: "... not found"} and does not raise.
C7_CallToolNeverRaises ==
    \A t \in ToolThreads :
        /\ res[t].kind # "raise"
        /\ (res[t].kind = "return" /\ obs[t].unknownServer)
             => ~res[t].success /\ res[t].error = "server_not_found"

\* C8: when the first or the follow-up LLM request ends with a non-200 status or a
\* malformed response, process_query returns success false; a success carries the
\* text of a successful LLM request.
C8_LlmFailureFailsQuery ==
    \A t \in QueryThreads :
        res[t].kind = "return" =>
          /\ ({obs[t].llm1, obs[t].llm2} \cap {"non200", "malformed"} # {}
                => ~res[t].success)
          /\ res[t].success =>
                \/ obs[t].llm1 = "ok" /\ res[t].response = obs[t].reply
                \/ obs[t].llm2 = "ok" /\ res[t].response = FinalText

\* What one process_query does, in order, without and with a tool call.
FullNoTool ==
    <<"msg:user", "ev:processing", "ev:llm_call", "llm1", "msg:assistant",
      "ev:response_ready">>
FullTool ==
    <<"msg:user", "ev:processing", "ev:llm_call", "llm1", "ev:tool_call", "tool",
      "ev:tool_result", "llm2", "msg:assistant", "ev:response_ready">>

EventMarks ==
    {"ev:processing", "ev:llm_call", "ev:tool_call", "ev:tool_result",
     "ev:response_ready", "ev:error"}

WithoutError(l) ==
    IF l # <<>> /\ l[Len(l)] = "ev:error" THEN SubSeq(l, 1, Len(l) - 1) ELSE l

\* The types of the events invocation inv has in the queue of sid, in queue order.
QueuedBy(sid, inv) ==
    LET q == SelectSeq(EventsOf(event_queues[sid]), LAMBDA e : e.inv = inv)
    IN [i \in 1..Len(q) |-> "ev:" \o q[i].type]

\* C9: one process_query running alone appends the user message, then publishes
\* processing, then llm_call, then sends the first LLM request; only for a reply
\* that is a directive it then publishes tool_call, invokes the tool, publishes
\* tool_result and sends the follow-up request; then it appends the assistant
\* message and publishes response_ready.  A failure cuts this order short with an
\* error event.  The events stand in the session's queue in that order.
C9_EventOrder ==
    \A t \in QueryThreads :
        LET body == WithoutError(log[t])
        IN /\ IsPrefix(body, FullNoTool) \/ IsPrefix(body, FullTool)
           /\ "ev:tool_call" \in Range(log[t])
                => obs[t].llm1 = "ok" /\ Classify(obs[t].reply) = "tool"
           /\ (res[t].kind = "return" /\ res[t].success)
                => log[t] = IF Classify(obs[t].reply) = "tool" THEN FullTool
                            ELSE FullNoTool
           /\ loc[t].op = "query"
                => QueuedBy(loc[t].sid, loc[t].inv)
                     = SelectSeq(log[t], LAMBDA m : m \in EventMarks)

\* A process_query that used a tool has returned success after the full sequence.
C9_ToolRunComplete ==
    \E t \in QueryThreads :
        res[t].kind = "return" /\ res[t].success /\ res[t].has_tool_used
          /\ log[t] = FullTool

\* The terminal events an invocation has published.
Terminals(t) ==
    SelectSeq(log[t], LAMBDA m : m \in {"ev:response_ready", "ev:error"})

\* C10: every process_query invocation publishes exactly one terminal event, as its
\* last event: response_ready exactly when it returns success true, error exactly
\* when it returns success false.
C10_ExactlyOneTerminal ==
    \A t \in QueryThreads :
        /\ Len(Terminals(t)) <= 1
        /\ Terminals(t) # <<>> => log[t][Len(log[t])] = Terminals(t)[1]
        /\ res[t].kind # "none" =>
             /\ Len(Terminals(t)) = 1
             /\ Terminals(t)[1] = "ev:response_ready"
                  <=> (res[t].kind = "return" /\ res[t].success)
             /\ Terminals(t)[1] = "ev:error"
                  <=> (res[t].kind = "return" /\ ~res[t].success)

\* The history of a session id: conversation_history of the SessionData under that
\* key, empty when there is none.
HistoryOf(sid) ==
    IF sessions[sid] = 0 THEN <<>> ELSE sessObjs[sessions[sid]].conversation_history

\* C11: when the first LLM reply is the directive (S, T, A), S is connected and the
\* follow-up request succeeds, process_query returns success with the follow-up
\* text as response and tool_used naming exactly S, T and A, and the server's
\* call_tool was invoked exactly once, with (S, T, A).  Unless call_tool raised for
\* a server that is missing or not connected, the directive reaches the follow-up
\* request.
C11_DirectiveRunsToolOnce ==
    \A t \in QueryThreads :
        (pc[t] = "idle" /\ res[t].kind = "return" /\ obs[t].reply.kind = "directive") =>
            /\ obs[t].fault \notin {"server_not_found", "server_not_connected"} =>
                 obs[t].invoked = 1 /\ obs[t].llm2 # "none"
            /\ obs[t].llm2 = "ok" =>
                 /\ res[t].success
                 /\ res[t].response = FinalText
                 /\ res[t].has_tool_used
                 /\ res[t].tool_used.server = obs[t].reply.server
                 /\ res[t].tool_used.tool = obs[t].reply.tool
                 /\ res[t].tool_used.arguments = obs[t].reply.args
                 /\ obs[t].invoked = 1
                 /\ obs[t].call = [obs[t].reply EXCEPT !.kind = "call"]

\* A query was answered through tool "add" of the connected server that lists it.
C11_ToolAnswer ==
    \E t \in QueryThreads :
        /\ pc[t] = "idle" /\ res[t].kind = "return" /\ res[t].success
        /\ obs[t].reply.kind = "directive" /\ obs[t].llm2 = "ok"
        /\ connections[obs[t].reply.server].is_connected
        /\ obs[t].reply.tool \in connections[obs[t].reply.server].tools
        /\ res[t].response = FinalText
        /\ res[t].tool_used.server = obs[t].reply.server
        /\ obs[t].invoked = 1

\* The messages of invocation inv in a history.
MessagesOf(h, inv) == SelectSeq(h, LAMBDA m : m.inv = inv)

C14_TouchedOnEveryAccess ==
    /\ \A sid \in Known :
         sessObjs[sessions[sid]].created_at <= sessObjs[sessions[sid]].last_activity
    /\ \A t \in HistoryThreads :
         res[t].kind = "sessions" =>
            \A sid \in DOMAIN res[t].sessions :
                sessObjs[sessions[sid]].last_activity >= res[t].at

\* C15: add_server for a name that is already a key of connections fails and leaves
\* the entry as it was: no step replaces a stored entry, and the request that found
\* the name stored does not answer success.
C15_NoReplace ==
    [][/\ \A s \in ServerNames :
            connections[s].present => connections'[s] = connections[s]
       /\ \A t \in AdminThreads :
            (pc[t] # "idle" /\ pc'[t] = "idle"
               /\ obs[t].op \in {"add_server", "add_server_v4"}
               /\ obs[t].before[obs[t].name].present)
              => ~res'[t].success]_vars

\* C16: add_server for a new name stores an entry under that name whether or not
\* the connect succeeded, not connected after a failure, and answers true exactly
\* when the connect succeeded.
C16_StoredWhateverTheOutcome ==
    \A t \in AdminThreads :
        (pc[t] = "idle" /\ res[t].kind = "return" /\ obs[t].entered = 1
           /\ obs[t].op \in {"add_server", "add_server_v4"}
           /\ ~obs[t].before[obs[t].name].present)
          => /\ connections[obs[t].name].present
             /\ res[t].success <=> obs[t].connect = "ok"
             /\ connections[obs[t].name].is_connected <=> obs[t].connect = "ok"

\* C17: in MCPClientManager.add_server a failed list-resources or list-prompts
\* request leaves an empty list for that capability and add_server still answers
\* true with the connection stored as connected; a failure of the transport, of the
\* handshake or of the list-tools request makes add_server answer false.
C17_BestEffortDiscovery ==
    \A t \in AdminThreads :
        (pc[t] = "idle" /\ res[t].kind = "return" /\ obs[t].op = "add_server") =>
            LET conn == connections[obs[t].name]
            IN /\ obs[t].connect \in {"transport", "handshake", "list_tools"}
                    => ~res[t].success
               /\ obs[t].connect = "ok" =>
                    /\ res[t].success
                    /\ conn.present /\ conn.is_connected
                    /\ obs[t].resources # "some" => conn.resources = <<>>
                    /\ obs[t].prompts # "some" => conn.prompts = <<>>
                    /\ obs[t].resources = "some" => conn.resources # <<>>
                    /\ obs[t].prompts = "some" => conn.prompts # <<>>

\* add_server answered true for a server whose list-resources and list-prompts
\* requests both raised, and one whose list-tools request raised answered false.
C17_ListsRaised ==
    \E t \in AdminThreads :
        /\ pc[t] = "idle" /\ res[t].kind = "return" /\ obs[t].op = "add_server"
        /\ res[t].success
        /\ obs[t].resources = "raised" /\ obs[t].prompts = "raised"
        /\ connections[obs[t].name].is_connected
        /\ connections[obs[t].name].tools = {"add"}
        /\ connections[obs[t].name].resources = <<>>
        /\ connections[obs[t].name].prompts = <<>>

\* A configuration without the field its transport kind requires.
Incomplete(cfg) ==
    \/ cfg.transport_type = "stdio" /\ cfg.command = ""
    \/ cfg.transport_type \in {"sse", "streamable_http"} /\ cfg.url = ""

\* C18: a configuration without the field its transport kind requires (stdio
\* without a command; sse or streamable_http without a url) is answered with an
\* error before the manager's add_server is entered or any transport opened, and
\* the registry is as the request found it.
C18_IncompleteConfigRejected ==
    \A t \in AdminThreads :
        (pc[t] = "idle" /\ res[t].kind # "none"
           /\ obs[t].op \in {"add_server_v4", "add_sse_server"}
           /\ Incomplete(obs[t].cfg))
          => /\ ~res[t].success
             /\ res[t].error = "value_error"
             /\ obs[t].entered = 0
             /\ obs[t].opened = 0
             /\ connections = obs[t].before
             /\ obs[t].op = "add_sse_server" => sandbox = obs[t].clientBefore

\* With a server registered, a stdio configuration that carries a url and no
\* command was rejected.
C18_StdioWithoutCommand ==
    \E t \in AdminThreads :
        /\ pc[t] = "idle" /\ res[t].kind = "return" /\ obs[t].op = "add_server_v4"
        /\ obs[t].cfg.transport_type = "stdio"
        /\ obs[t].cfg.command = "" /\ obs[t].cfg.url # ""
        /\ res[t].error = "value_error"
        /\ obs[t].entered = 0
        /\ Registered # {}
        /\ connections = obs[t].before

\* C19: every connection stored with is_connected = True has its capability lists
\* and a last-synced timestamp that is not absent.
C19_ConnectedHasTimestamp ==
    \A s \in ServerNames :
        connections[s].is_connected =>
            /\ connections[s].present
            /\ connections[s].last_checked.known

\* C20: once add_server has succeeded for a server that listed tool set T, the
\* stored connection stays connected with exactly the tools T through every later
\* request that does not add that server again, and GET /servers reports the
\* server as connected with exactly the tools T.
C20_ListingMatchesAdvertised ==
    /\ \A s \in ServerNames :
         advertised[s].known =>
            /\ connections[s].present /\ connections[s].is_connected
            /\ connections[s].tools = advertised[s].tools
    /\ \A t \in AdminThreads :
         res[t].kind = "servers" =>
            \A s \in ServerNames :
                advertised[s].known =>
                   /\ s \in DOMAIN res[t].servers
                   /\ res[t].servers[s].is_connected
                   /\ res[t].servers[s].tools = advertised[s].tools

\* GET /servers reported tool "add" for a server that listed it.
C20_ListedAfterAdd ==
    \E t \in AdminThreads, s \in ServerNames :
        /\ res[t].kind = "servers"
        /\ advertised[s].known /\ advertised[s].tools = {"add"}
        /\ s \in DOMAIN res[t].servers
        /\ res[t].servers[s].is_connected
        /\ res[t].servers[s].tools = {"add"}

\* C21: call_tool on a server that is present and connected returns a dictionary
\* and does not raise: success true with the is_error flag of the server's result
\* when session.call_tool returned, and success false with an error text and
\* is_error true when it raised.  The caller of POST /tools/call is given that
\* dictionary.
C21_ConnectedCallReturns ==
    /\ \A t \in Threads :
         (obs[t].invoked = 1 /\ loc[t].tres # NoToolResult) =>
            LET r == loc[t].tres
            IN IF obs[t].outcome = "exception"
               THEN ~r.success /\ r.error # "none" /\ r.is_error
               ELSE /\ r.success /\ r.error = "none"
                    /\ r.is_error <=> obs[t].outcome = "content_is_error"
    /\ \A t \in ToolThreads :
         (pc[t] = "idle" /\ res[t].kind # "none" /\ obs[t].invoked = 1) =>
            /\ res[t].kind = "return"
            /\ res[t].tool_result # NoToolResult
            /\ res[t].success = res[t].tool_result.success
            /\ IF obs[t].outcome = "exception"
               THEN /\ ~res[t].tool_result.success
                    /\ res[t].tool_result.error # "none"
                    /\ res[t].tool_result.is_error
               ELSE /\ res[t].tool_result.success
                    /\ res[t].tool_result.is_error
                         <=> obs[t].outcome = "content_is_error"

\* POST /tools/call answered success true with is_error true for a connected
\* server, after an earlier request.
C21_ErrorFlagCarried ==
    \E t \in ToolThreads :
        /\ pc[t] = "idle" /\ res[t].kind = "return" /\ obs[t].invoked = 1
        /\ obs[t].outcome = "content_is_error"
        /\ connections[obs[t].call.server].is_connected
        /\ res[t].tool_result.success /\ res[t].tool_result.is_error

C23_OneUserOfAHandle ==
    \A s \in ServerNames : Cardinality(InUse(s)) <= 1

\* The servers with a session whose tool of that name is known to the client, in
\* the order their sessions were registered.
Exposing(client, tl) ==
    SelectSeq(client.sessions, LAMBDA sv : Key(sv, tl) \in client.tools)

\* C24: with two servers registered that both expose a tool, a call that names no
\* server is routed to the first-registered of them; and a call that names a
\* server and a tool that server exposes is routed to that server.
C24_FirstRegisteredOrNamed ==
    \A t \in ToolThreads :
        (res[t].kind = "return" /\ obs[t].op = "v2_call_tool") =>
            LET client == obs[t].clientBefore
            IN /\ (obs[t].key \in ToolNames /\ Len(Exposing(client, obs[t].key)) >= 2)
                    => /\ obs[t].invoked = 1
                       /\ obs[t].call.server = Exposing(client, obs[t].key)[1]
               /\ \A sv \in ServerNames, tl \in ToolNames :
                    (obs[t].key = Key(sv, tl) /\ Len(Exposing(client, tl)) >= 2)
                      => obs[t].invoked = 1 /\ obs[t].call.server = sv

\* No sessions, no tools, no resources.
Disconnected(client) ==
    client.sessions = <<>> /\ client.tools = {} /\ client.resources = {}

\* C25: close_all_sessions returns without raising and leaves the client without
\* sessions, tools and resources; called on a client that is already in that state
\* it leaves the client exactly as it was.
C25_CloseTwice ==
    [][\A t \in AdminThreads :
          (started' = started + 1 /\ res'[t].inv = started + 1
             /\ obs'[t].op = "close_all_sessions")
            => /\ res'[t].kind = "return"
               /\ Disconnected(sandbox')
               /\ Disconnected(sandbox) => sandbox' = sandbox]_vars

\* close_all_sessions was called on a client whose servers had been added and whose
\* sessions had already been closed, and the client is as that call found it.
C25_ClosedAgain ==
    \E t \in AdminThreads :
        /\ res[t].kind = "return" /\ obs[t].op = "close_all_sessions"
        /\ obs[t].clientBefore.server_configs # {}
        /\ Disconnected(obs[t].clientBefore)
        /\ sandbox = obs[t].clientBefore

\* C26: sessions expire.  With idle timeout d, the sessions the manager holds when
\* it reports its active sessions at time `at` are those whose last_activity is at
\* or after at - d: one that was idle for longer has been removed, and one that was
\* touched within d is still there.
C26_IdleSessionsExpire ==
    /\ \A t \in HistoryThreads :
         res[t].kind = "sessions" =>
            \A sid \in DOMAIN res[t].sessions :
                res[t].sessions[sid].last_activity >= res[t].at - IdleTimeout
    /\ \A i \in 1..Len(sessObjs) :
         sessObjs[i].last_activity >= now - IdleTimeout
           => \E sid \in SessionIds : sessions[sid] = i

\* How often a mark stands in the record of an invocation.
Count(l, mark) == Len(SelectSeq(l, LAMBDA m : m = mark))

FailedRequest == {"exception", "non200", "malformed"}

\* C27: nothing is retried.  One process_query sends the first LLM request at most
\* once and the follow-up request at most once (none when the first reply is not a
\* directive) and invokes a tool at most once; one add_server makes at most one
\* connection attempt.  A request that failed or timed out is reported as a
\* failure: the query or the add_server answers success false, and a failed tool
\* invocation is reported as a failed tool result.
C27_NoImplicitRetry ==
    /\ \A t \in QueryThreads :
         /\ Count(log[t], "llm1") <= 1
         /\ Count(log[t], "llm2") <= 1
         /\ Count(log[t], "tool") <= 1
         /\ obs[t].invoked <= 1
         /\ (obs[t].llm1 = "ok" /\ Classify(obs[t].reply) # "tool")
              => Count(log[t], "llm2") = 0 /\ obs[t].invoked = 0
         /\ (pc[t] = "idle" /\ res[t].kind # "none") =>
              /\ ({obs[t].llm1, obs[t].llm2} \cap FailedRequest # {})
                   => res[t].kind = "return" /\ ~res[t].success
              /\ (obs[t].outcome = "exception" /\ res[t].success)
                   => res[t].has_tool_used /\ ~res[t].tool_used.result.success
    /\ \A t \in AdminThreads :
         obs[t].op = "add_server" =>
            /\ obs[t].entered <= 1 /\ obs[t].opened <= 1
            /\ (pc[t] = "idle" /\ obs[t].connect \in ConnectFailures)
                 => res[t].kind = "return" /\ ~res[t].success

\* What the manager holds for a session id: the history and the times of its
\* SessionData, and its event queue.
HeldFor(sid) ==
    [history |-> HistoryOf(sid),
     times |-> IF sessions[sid] = 0 THEN <<>>
               ELSE <<sessObjs[sessions[sid]].created_at,
                      sessObjs[sessions[sid]].last_activity>>,
     stored |-> sessions[sid] # 0,
     queue |-> EventsOf(event_queues[sid]),
     queued |-> event_queues[sid] # 0]

\* C28: a step of a request for session A leaves the history, the last_activity and
\* the event queue of every other session as they were, and a step of a request
\* for server X leaves the stored connection of every other server as it was,
\* whether the request succeeds or fails.
C28_OthersUntouched ==
    [][\A t \in Threads :
          (pc'[t] # pc[t] \/ loc'[t] # loc[t] \/ res'[t] # res[t]) =>
             /\ \A sid \in SessionIds \ {loc[t].sid, loc'[t].sid} :
                   HeldFor(sid)' = HeldFor(sid)
             /\ \A sv \in ServerNames \ {loc[t].server, loc'[t].server} :
                   connections'[sv] = connections[sv]]_vars

\* A query for session s2 has failed while session s1 holds the two messages and
\* the events of an earlier query, and nothing of the failed query is among them.
C28_FailedBesideAnother ==
    \E t \in QueryThreads :
        /\ pc[t] = "idle" /\ res[t].kind = "return" /\ ~res[t].success
        /\ res[t].session_id = "s2"
        /\ Len(HistoryOf("s1")) = 2
        /\ \A i \in 1..2 : HistoryOf("s1")[i].inv # res[t].inv
        /\ EventsOf(event_queues["s1"]) # <<>>
        /\ \A e \in Range(EventsOf(event_queues["s1"])) : e.sid = "s1"
        /\ EventsOf(event_queues["s2"]) # <<>>

\* Events that have been emitted to a consumer.
Emitted == {id \in 1..Len(delivered) : delivered[id] > 0}

\* C29: with one consumer on the /events stream of a session, every event published
\* for the session reaches that consumer exactly once and in publish order: none
\* is emitted twice, the next event the stream emits was published after every
\* event emitted before, and an event not emitted yet is still on its way, in the
\* session's queue or in the drained list the stream is emitting.  The stream
\* leaves its polling loop only when the client disconnects.
C29_StreamDeliversAll ==
    /\ \A id \in 1..Len(delivered) :
         /\ delivered[id] <= 1
         /\ delivered[id] = 0 => id \in Queued \cup Unread("e1")
    /\ (pc["e1"] = "se_iter" /\ loc["e1"].idx < Len(EventsOf(loc["e1"].events)))
         => \A id \in Emitted :
               id < EventsOf(loc["e1"].events)[loc["e1"].idx + 1].id
    /\ loc["e1"].op = "stream"
         => pc["e1"] \in {"ge_load", "ge_store", "se_iter", "se_sleep"}

\* C30: when POST /tools/call carries a session id, the call is recorded in that
\* session: once a request whose tool was invoked has been answered, the history
\* of the session holds an entry of this request.
C30_DirectCallRecorded ==
    \A t \in ToolThreads :
        (pc[t] = "idle" /\ res[t].kind = "return" /\ obs[t].invoked = 1
           /\ obs[t].session # "none") =>
            \E i \in 1..Len(HistoryOf(obs[t].session)) :
                HistoryOf(obs[t].session)[i].inv = res[t].inv

\* Thread t takes a step of a read-only route: GET /sessions/<id>/history, GET
\* /events/<id>, or GET /sessions.
ReadRouteStep(t) ==
    \/ /\ pc'[t] # pc[t] \/ loc'[t] # loc[t]
       /\ loc[t].op \in {"history", "stream"} \/ loc'[t].op \in {"history", "stream"}
    \/ res'[t] # res[t] /\ res'[t].kind = "sessions"

\* C31: the request thread of the history route, of the events route and of the
\* session-listing route never modifies the manager's maps itself: every step such
\* a thread takes leaves connections, sessions and event_queues as they were.
C31_ReadRoutesLeaveMaps ==
    [][\A t \in Threads :
          ReadRouteStep(t) => UNCHANGED <<connections, sessions, event_queues>>]_vars

\* Server name has a usable connection in the client its connect operation belongs
\* to: a key of MCPClient.connections, or a key of AISandboxMCPClient.sessions.
Usable(op, mc, sb, name) ==
    IF op = "connect_to_server" THEN mc.connections[name].type # "none"
    ELSE \E i \in 1..Len(sb.sessions) : sb.sessions[i] = name

\* C32: when a step of MCPClient.connect_to_server or of
\* AISandboxMCPClient.add_sse_server fails - opening the transport, the handshake or
\* the tools/list request - the caller is given a failure, and the server does not
\* become a usable connection through that call.
C32_FailedConnectReported ==
    [][\A t \in AdminThreads :
          (/\ obs'[t] # obs[t]
           /\ obs'[t].op \in {"connect_to_server", "add_sse_server"}
           /\ obs'[t].connect \in {"transport", "handshake", "list_tools"})
          => /\ ~res'[t].success /\ res'[t].error # "none"
             /\ Usable(obs'[t].op, mcp_client', sandbox', obs'[t].name)
                  => Usable(obs'[t].op, mcp_client, sandbox, obs'[t].name)]_vars

\* Thread t takes a step.
Steps(t) == pc'[t] # pc[t] \/ loc'[t] # loc[t] \/ res'[t] # res[t]

\* C33: the stored connection of a server changes only in a step of an add_server
\* request for that server name; every step of call_tool, process_query,
\* get_session, add_event and get_events, failed or not, leaves the tools, the
\* resources, the prompts and is_connected of every connection as they were.
C33_SnapshotFrame ==
    [][/\ \A sv \in ServerNames :
            connections'[sv] # connections[sv] =>
               \E t \in AdminThreads :
                  Steps(t) /\ loc[t].op = "add_server" /\ loc[t].server = sv
       /\ \A t \in Threads :
            (Steps(t) /\ {loc[t].op, loc'[t].op}
                           \cap {"query", "call_tool", "call_tool_v4", "stream",
                                 "history"} # {})
              => connections' = connections]_vars

\* A direct tool call on a connected server has failed inside the invocation, and
\* the connection is still connected with the tools it advertised.
C33_FailedCallStillConnected ==
    \E t \in ToolThreads :
        /\ pc[t] = "idle" /\ res[t].kind = "return" /\ ~res[t].success
        /\ obs[t].invoked = 1 /\ obs[t].outcome = "exception"
        /\ connections[obs[t].call.server].is_connected
        /\ connections[obs[t].call.server].tools = advertised[obs[t].call.server].tools
        /\ advertised[obs[t].call.server].tools # {}

\* The pending events of a session: its queue, in queue order.
Pending(sid) == EventsOf(event_queues[sid])

\* The marks of the events of invocation inv in a list of events, in list order.
MarksOf(l, inv) ==
    LET q == SelectSeq(l, LAMBDA e : e.inv = inv)
    IN [i \in 1..Len(q) |-> "ev:" \o q[i].type]

C35_ConnectedMeansLive ==
    /\ \A sv \in ServerNames :
         (connections[sv].present /\ connections[sv].is_connected)
            => connections[sv].transport = "open"
    /\ \A t \in Threads :
         pc[t] \in {"ct_send", "ct_invoke"}
            => connections[loc[t].server].transport = "open"

\* C36: when the MCPClient context has exited, every handle the client opened -
\* the aiohttp session and every websocket of connect_to_server - is closed.
C36_ExitClosesAll ==
    \A t \in AdminThreads :
        (pc[t] = "idle" /\ res[t].kind = "return" /\ obs[t].op = "aexit") =>
            \A i \in 1..Len(mcp_client.handles) : ~mcp_client.handles[i].open

\* The registry of a client has an entry of its own for a tool, or for a
\* resource, that server sv advertised.
HasTool(op, mc, sb, sv, tl) ==
    IF op = "connect_to_server" THEN mc.tools[Key(sv, tl)] = sv
    ELSE Key(sv, tl) \in sb.tools
HasResource(op, mc, sb, sv, u) ==
    IF op = "connect_to_server" THEN mc.resources[u] = sv
    ELSE Key(sv, u) \in sb.resources

\* C37: connecting a server and discovering its capabilities drops no entry of
\* another server: every tool and every resource another server advertised keeps
\* its own registry entry, also when the new server advertises the same tool name
\* or the same resource URI, and the resources the new server listed have entries
\* of their own; call_tool and read_resource send their request to the server the
\* entry belongs to.
C37_NothingDropped ==
    [][\A t \in AdminThreads \cup ToolThreads :
          /\ (obs'[t] # obs[t]
                /\ obs'[t].op \in {"connect_to_server", "add_sse_server"}) =>
               LET op == obs'[t].op
               IN /\ \A sv \in ServerNames \ {obs'[t].name} :
                       /\ \A tl \in ToolNames :
                            HasTool(op, mcp_client, sandbox, sv, tl)
                               => HasTool(op, mcp_client', sandbox', sv, tl)
                       /\ \A u \in ResourceUris :
                            HasResource(op, mcp_client, sandbox, sv, u)
                               => HasResource(op, mcp_client', sandbox', sv, u)
                  /\ obs'[t].resources = "some" =>
                       \A u \in ResourceUris :
                          HasResource(op, mcp_client', sandbox', obs'[t].name, u)
          /\ (obs'[t] # obs[t] /\ obs'[t].invoked = 1
                /\ obs'[t].op \in {"mc_call_tool", "v2_call_tool"}) =>
               HasTool(IF obs'[t].op = "mc_call_tool" THEN "connect_to_server"
                       ELSE "add_sse_server",
                       mcp_client, sandbox, obs'[t].call.server, obs'[t].call.tool)
          /\ (obs'[t] # obs[t] /\ obs'[t].invoked = 1
                /\ obs'[t].op \in {"mc_read_resource", "v2_read_resource"}) =>
               \E u \in ResourceUris :
                  HasResource(IF obs'[t].op = "mc_read_resource" THEN "connect_to_server"
                              ELSE "add_sse_server",
                              mcp_client, sandbox, obs'[t].call.server, u)]_vars

\* C38: in the history of every session each assistant message comes after the
\* user message of the same process_query invocation, so the history never holds
\* more assistant messages than user messages, however the invocations interleave
\* or fail.
C38_AnswerFollowsQuery ==
    \A sid \in SessionIds :
        LET h == HistoryOf(sid)
        IN \A i \in 1..Len(h) :
              h[i].role = "assistant" =>
                 \E j \in 1..(i - 1) : h[j].role = "user" /\ h[j].inv = h[i].inv

====
